---- MODULE Spec2Model ----
(***************************************************************************)
(* The raw-table database console of backend/app/routers/admin.py: the     *)
(* access gate, the schema inspector, the row access layer and the CSV     *)
(* import, over a SQLite store reached through one SQLAlchemy session per  *)
(* request (backend/app/dependencies.py, get_db).                          *)
(*                                                                         *)
(* Identifiers (table names, column names, CSV header names) are sequences *)
(* of one-character strings, so that strip() and the quoting of            *)
(* identifiers are computed and not assumed.  Cell values are strings;     *)
(* Python's None and SQL NULL are the value None below.                    *)
(***************************************************************************)
EXTENDS Integers, Sequences, FiniteSets, TLC

\* ------------------------------------------------------------------ bounds
\* A table never holds more than MaxRows rows (requests that would exceed
\* it are not issued); an uploaded CSV has at most MaxCsvRows data lines.
MaxRows == 2
MaxCsvRows == 2

\* ------------------------------------------------------------- value space
None == "None"            \* Python None / SQL NULL / JSON null
Secret == "s3cret"        \* the value of the configured console password
Cells == {"", "a"}        \* what a CSV cell or a JSON string can be
Values == Cells \cup {None}

ColK == <<"k">>
ColV == <<"v">>
PaddedK == <<" ", "k">>   \* the header name " k"
Bogus == <<"x">>          \* a name no table has as a column

TableT == <<"t">>
\* A table name with a double quote in it: t"x.
TableQ == <<"t", "\"", "x">>
Ghost == <<"g">>          \* a name no table ever has

\* ---------------------------------------------------------------- strings
\* str.strip(): leading and trailing whitespace removed.
RECURSIVE lstrip(_)
lstrip(s) == IF s # <<>> /\ Head(s) = " " THEN lstrip(Tail(s)) ELSE s

RECURSIVE rstrip(_)
rstrip(s) ==
    IF s # <<>> /\ s[Len(s)] = " " THEN rstrip(SubSeq(s, 1, Len(s) - 1)) ELSE s

strip(s) == rstrip(lstrip(s))

\* Mutant of sanitize_table_name: the name is embedded as it came.
sanitize_table_name_raw(table_name) == table_name

\* str.replace('"', '""') of _sanitize_table_name.
RECURSIVE sanitize_table_name(_)
sanitize_table_name(table_name) ==
    IF table_name = <<>> THEN <<>>
    ELSE (IF Head(table_name) = "\"" THEN <<"\"", "\"">> ELSE <<Head(table_name)>>)
         \o sanitize_table_name(Tail(table_name))

\* The table a statement names when it embeds safe_name between double
\* quotes: SQLite reads a doubled quote inside a quoted identifier as one
\* quote character, and a single one as the end of the identifier.
RECURSIVE SqlIdentifier(_)
SqlIdentifier(safe_name) ==
    IF safe_name = <<>> THEN <<>>
    ELSE IF Len(safe_name) >= 2 /\ safe_name[1] = "\"" /\ safe_name[2] = "\""
         THEN <<"\"">> \o SqlIdentifier(SubSeq(safe_name, 3, Len(safe_name)))
    ELSE IF Head(safe_name) = "\"" THEN <<>>
         ELSE <<Head(safe_name)>> \o SqlIdentifier(Tail(safe_name))

Range(s) == {s[i] : i \in 1..Len(s)}

\* Any total order of characters serves ORDER BY name; this is the one of
\* their code points.
Alphabet == <<" ", "\"", "a", "g", "k", "t", "u", "v", "x">>
CharRank(c) == CHOOSE i \in 1..Len(Alphabet) : Alphabet[i] = c

RECURSIVE NameLess(_, _)
NameLess(a, b) ==
    IF a = <<>> THEN b # <<>>
    ELSE IF b = <<>> THEN FALSE
    ELSE IF Head(a) = Head(b) THEN NameLess(Tail(a), Tail(b))
    ELSE CharRank(Head(a)) < CharRank(Head(b))

RECURSIVE OrderByName(_)
OrderByName(names) ==
    IF names = {} THEN <<>>
    ELSE LET first == CHOOSE n \in names : \A m \in names \ {n} : NameLess(n, m)
         IN  <<first>> \o OrderByName(names \ {first})

\* ------------------------------------------------------------ configuration
\* Settings as backend/app/config.py declares it: the console secret is the
\* field admin_db_header_secret.
SettingsDeclared == [admin_db_header_secret |-> Secret]
\* Settings as backend/app/routers/admin.py reads it: the console secret is
\* the attribute database_admin_password.
SettingsExpected == [database_admin_password |-> Secret]

\* admin.py reads a name config.py does not declare (as main.py reads
\* settings.upload_dir where config.py declares uploads_dir).  Both objects
\* are initial states: with the first every console request ends in
\* AttributeError; the console's operations are reached with the second.
SettingsObjects == {SettingsDeclared, SettingsExpected}

AttributeError == "AttributeError"
\* Python attribute access on the settings object.
getattr(obj, name) == IF name \in DOMAIN obj THEN obj[name] ELSE AttributeError

\* --------------------------------------------------------------- the store
Column(name, pk, notnull) ==
    [name |-> name, type |-> "TEXT", notnull |-> notnull,
     default_value |-> None, pk |-> pk]

EmptyTable(columns) == [columns |-> columns, rows |-> <<>>]

\* The schemas of table t a database may have: one primary-key column, a
\* composite primary key, no primary key.  Tables are created by migrations,
\* outside the console.
SinglePk == <<Column(ColK, TRUE, TRUE), Column(ColV, FALSE, FALSE)>>
CompositePk == <<Column(ColK, TRUE, TRUE), Column(ColV, TRUE, TRUE)>>
NoPk == <<Column(ColK, FALSE, FALSE)>>
Schemas == {SinglePk, CompositePk, NoPk}
\* A key column and nothing else.
KeyOnly == <<Column(ColK, TRUE, TRUE)>>
\* A database of two tables, one of them with a quote in its name.
TwoTables == [n \in {TableT, TableQ} |-> EmptyTable(KeyOnly)]
Databases ==
    {[n \in {TableT} |-> EmptyTable(cols)] : cols \in Schemas} \cup {TwoTables}

ColumnNames(columns) == [i \in 1..Len(columns) |-> columns[i].name]
IsPk(col) == col.pk
PkNames(columns) == {columns[i].name : i \in {j \in 1..Len(columns) : columns[j].pk}}

\* One row of the statement's table as the store would hold it: the named
\* columns take the bound parameters, the others their default (NULL).
FullRow(columns, fields) ==
    [c \in Range(ColumnNames(columns)) |->
        IF c \in DOMAIN fields THEN fields[c] ELSE None]

NotNullOk(columns, row) ==
    \A i \in 1..Len(columns) : columns[i].notnull => row[columns[i].name] # None

SameKey(columns, r1, r2) == \A c \in PkNames(columns) : r1[c] = r2[c]

\* PRIMARY KEY uniqueness over the rows of one table.
UniqueOk(columns, rows) ==
    PkNames(columns) = {} \/
    \A i, j \in 1..Len(rows) : i # j => ~SameKey(columns, rows[i], rows[j])

ConstraintsOk(columns, rows) ==
    /\ \A i \in 1..Len(rows) : NotNullOk(columns, rows[i])
    /\ UniqueOk(columns, rows)

\* A statement that names a column the table lacks is an error.
KnownColumns(columns, fields) == DOMAIN fields \subseteq Range(ColumnNames(columns))

\* Mutant of SqlInsert: the statement is accepted and stores nothing.
SqlInsertIgnored(tbl, fields) == [ok |-> TRUE, rows |-> tbl.rows]

\* INSERT INTO t (...) VALUES (...): [ok, rows]; a violated constraint
\* raises IntegrityError and the row is not inserted.
SqlInsert(tbl, fields) ==
    LET rows == Append(tbl.rows, FullRow(tbl.columns, fields))
    IN  IF KnownColumns(tbl.columns, fields) /\ ConstraintsOk(tbl.columns, rows)
        THEN [ok |-> TRUE, rows |-> rows]
        ELSE [ok |-> FALSE, rows |-> tbl.rows]

\* executemany of one INSERT: rows go in one after the other; the first
\* violation raises and leaves the rows inserted before it in the
\* transaction.
RECURSIVE SqlInsertMany(_, _)
SqlInsertMany(tbl, rows_to_insert) ==
    IF rows_to_insert = <<>> THEN [ok |-> TRUE, rows |-> tbl.rows]
    ELSE LET one == SqlInsert(tbl, Head(rows_to_insert))
         IN  IF ~one.ok THEN one
             ELSE SqlInsertMany([tbl EXCEPT !.rows = one.rows], Tail(rows_to_insert))

\* UPDATE t SET c = :c, ... WHERE pk = :_pk_value: [ok, rows, rowcount].
\* NULL equals nothing.
Matches(row, pk_name, pk_value) == row[pk_name] # None /\ row[pk_name] = pk_value

SqlUpdate(tbl, data, pk_name, pk_value) ==
    LET hit == {i \in 1..Len(tbl.rows) : Matches(tbl.rows[i], pk_name, pk_value)}
        rows == [i \in 1..Len(tbl.rows) |->
                    IF i \in hit
                    THEN [c \in DOMAIN tbl.rows[i] |->
                            IF c \in DOMAIN data THEN data[c] ELSE tbl.rows[i][c]]
                    ELSE tbl.rows[i]]
    IN  IF KnownColumns(tbl.columns, data) /\ ConstraintsOk(tbl.columns, rows)
        THEN [ok |-> TRUE, rows |-> rows, rowcount |-> Cardinality(hit)]
        ELSE [ok |-> FALSE, rows |-> tbl.rows, rowcount |-> 0]

\* Mutant of SqlDelete: the WHERE clause is lost once a row matches.
SqlDeleteAll(tbl, pk_name, pk_value) ==
    IF \E i \in 1..Len(tbl.rows) : Matches(tbl.rows[i], pk_name, pk_value)
    THEN [rows |-> <<>>, rowcount |-> Len(tbl.rows)]
    ELSE [rows |-> tbl.rows, rowcount |-> 0]

\* DELETE FROM t WHERE pk = :_pk_value: [rows, rowcount].
SqlDelete(tbl, pk_name, pk_value) ==
    LET keep == SelectSeq(tbl.rows, LAMBDA r : ~Matches(r, pk_name, pk_value))
    IN  [rows |-> keep, rowcount |-> Len(tbl.rows) - Len(keep)]

\* Mutant of SqlSelectLimit: the LIMIT clause is lost.
SqlSelectAll(tbl, limit) == tbl.rows

\* SELECT * FROM t LIMIT :limit, in rowid order.
SqlSelectLimit(tbl, limit) ==
    SubSeq(tbl.rows, 1, IF limit < Len(tbl.rows) THEN limit ELSE Len(tbl.rows))

\* A statement the handler executes: its kind, the table its text names and
\* the parameters bound to it.
Stmt(kind, target, params) == [kind |-> kind, target |-> target, params |-> params]
NoParams == <<>>

\* ---------------------------------------------------------------- requests
VARIABLES
    db,        \* the committed database: table name -> [columns, rows]
    settings,  \* the Settings object get_settings() returns
    driver,    \* how the DB-API driver opens the session's transaction
    pre,       \* db as it was when the last request arrived
    last,      \* the last request and its response
    passed,    \* history: what the secret has let through so far: "nothing",
               \* "login" (a login and no console call yet) or "console"
    inflight,  \* the requests being handled in parallel, each at its statement
    \* The tables of models.py the rest of the application works on.
    submissions,           \* id -> Submission
    directions,            \* the ids of the Direction rows
    users,                 \* id -> User
    reviewer_invites,      \* id -> ReviewerInvite
    submission_awards,     \* the SubmissionAward rows, in id order
    reimbursements,        \* id -> Reimbursement
    submission_vote_logs   \* the SubmissionVoteLog rows, in id order

portal == <<submissions, directions, users, reviewer_invites,
            submission_awards, reimbursements, submission_vote_logs>>
vars == <<db, settings, driver, pre, last, passed, inflight, portal>>

OK == 200
DefaultLimit == 200

Roles == {"admin", "author", None}   \* None: no valid bearer token
Headers == {Secret, "wrong", None}   \* None: no X-Database-Password header
TableNames == {TableT, Ghost, TableQ}
Limits == {-5, 0, 1, DefaultLimit}
PkValues == {"a", "zz"}
PayloadKeys == {ColK, ColV, Bogus}
Payloads == UNION {[keys -> Values] : keys \in SUBSET PayloadKeys}

NoFile == [kind |-> "none", fieldnames |-> <<>>, lines |-> <<>>]
NoResult == [none |-> TRUE]

\* A request before it is answered.
Request(op, role, header, table_name) ==
    [op |-> op, role |-> role, header |-> header, table_name |-> table_name,
     limit |-> DefaultLimit, pk_value |-> None, data |-> <<>>, mode |-> None,
     file |-> NoFile, password |-> None]

\* What a handler did: the HTTP status, the statements the handler ran on
\* its session in order, the tables of its session when it ended, whether it
\* committed them, and the response body.
Outcome(status, stmts, tables, committed, result) ==
    [status |-> status, stmts |-> stmts, tables |-> tables,
     committed |-> committed, result |-> result]

\* How the session's connection opens a transaction (SessionLocal and the
\* engine are made in database.py).  "legacy": Python's sqlite3 driver as
\* SQLAlchemy uses it by default issues no BEGIN before SELECT or SAVEPOINT,
\* so a SAVEPOINT opens SQLite's transaction and RELEASE of that outermost
\* savepoint commits it.  "transactional": the session's transaction is
\* begun before the savepoint, and RELEASE leaves the work pending until
\* commit().
Drivers == {"legacy", "transactional"}

\* get_db: the session is closed when the request ends, and closing rolls
\* back whatever the handler did not commit.
SessionClose(before, out) == IF out.committed THEN out.tables ELSE before

\* get_current_user and require_admin.
require_admin(role) ==
    IF role = None THEN 401 ELSE IF role # "admin" THEN 403 ELSE OK

\* Mutant of require_database_password_header: once a call has passed the
\* gate, later calls are let through without the header.
require_database_password_cached(cfg, password) ==
    IF passed # "nothing" THEN OK
    ELSE IF password = None THEN 422
    ELSE IF password # getattr(cfg, "database_admin_password") THEN 403
    ELSE OK

\* require_database_password_header; FastAPI answers 422 when the required
\* header is absent, and 500 when the dependency raises AttributeError.
require_database_password_header(cfg, password) ==
    IF password = None THEN 422
    ELSE LET expected == getattr(cfg, "database_admin_password")
         IN  IF expected = AttributeError THEN 500
             ELSE IF password # expected THEN 403
             ELSE OK

\* The dependencies of every console route, resolved in parameter order:
\* db, admin, _password.
Depends(cfg, role, header) ==
    IF require_admin(role) # OK THEN require_admin(role)
    ELSE require_database_password_header(cfg, header)

\* POST /database/login: the status it answers.  Its only dependency is
\* require_admin; a body without the password field is answered 422.
database_admin_login(cfg, role, password) ==
    IF require_admin(role) # OK THEN require_admin(role)
    ELSE IF password = None THEN 422
    ELSE LET expected == getattr(cfg, "database_admin_password")
         IN  IF expected = AttributeError THEN 500
             ELSE IF password # expected THEN 403
             ELSE OK

\* _fetch_table_names
fetch_table_names(tables) == OrderByName(DOMAIN tables)

\* Mutant of ensure_table_exists: the check never raises.
ensure_table_exists_skipped(tables, table_name) == TRUE

\* _ensure_table_exists: TRUE when it returns, FALSE when it raises 404.
ensure_table_exists(tables, table_name) ==
    table_name \in Range(fetch_table_names(tables))

\* _get_table_columns: PRAGMA table_info("<safe_table_name>").
get_table_columns(tables, safe_table_name) ==
    IF SqlIdentifier(safe_table_name) \in DOMAIN tables
    THEN tables[SqlIdentifier(safe_table_name)].columns
    ELSE <<>>

\* Mutant of pk_columns_of: the first primary-key column alone, as next()
\* would pick it.
pk_columns_first(columns) ==
    IF SelectSeq(columns, IsPk) = <<>> THEN <<>>
    ELSE <<Head(SelectSeq(columns, IsPk))>>

\* pk_columns = [col for col in columns if col["pk"]]
pk_columns_of(columns) == SelectSeq(columns, IsPk)

\* Mutant of invalid_fields_of: fields are reported only when none of them
\* is a column.
invalid_fields_all(data, columns) ==
    IF DOMAIN data \cap Range(ColumnNames(columns)) = {}
    THEN DOMAIN data ELSE {}

\* invalid_fields = [field for field in payload.data if field not in valid_columns]
invalid_fields_of(data, columns) == DOMAIN data \ Range(ColumnNames(columns))

SelectMaster == Stmt("SELECT sqlite_master", <<>>, NoParams)

NoSuchTable(stmts, tables) == Outcome(500, stmts, tables, FALSE, NoResult)

\* GET /database/tables
list_database_tables(tables) ==
    Outcome(OK, <<SelectMaster>>, tables, FALSE,
            [tables |-> fetch_table_names(tables)])

\* GET /database/tables/{table_name}
get_database_table(tables, table_name, limit0) ==
    LET limit == IF limit0 <= 0 THEN DefaultLimit ELSE limit0
    IN  IF ~ensure_table_exists(tables, table_name)
        THEN Outcome(404, <<SelectMaster>>, tables, FALSE, NoResult)
        ELSE
        LET safe_name == sanitize_table_name(table_name)
            target == SqlIdentifier(safe_name)
            columns == get_table_columns(tables, safe_name)
            s0 == <<SelectMaster, Stmt("PRAGMA table_info", target, NoParams),
                    Stmt("SELECT", target, [limit |-> limit])>>
            pks == pk_columns_of(columns)
        IN  IF target \notin DOMAIN tables THEN NoSuchTable(s0, tables)
            ELSE Outcome(OK, s0, tables, FALSE,
                         [columns |-> columns,
                          rows |-> SqlSelectLimit(tables[target], limit),
                          primary_key |-> IF pks = <<>> THEN <<>> ELSE pks[1].name])

\* Mutant of update_execute: db.commit() is left out.
update_execute_uncommitted(tables, target, data, pk_name, pk_value, stmts) ==
    LET res == SqlUpdate(tables[target], data, pk_name, pk_value)
        changed == [tables EXCEPT ![target].rows = res.rows]
    IN  IF ~res.ok THEN Outcome(500, stmts, tables, FALSE, NoResult)
        ELSE IF res.rowcount = 0 THEN Outcome(404, stmts, changed, FALSE, NoResult)
        ELSE Outcome(OK, stmts, changed, FALSE, [status |-> "updated"])

\* result = db.execute(query, params); 404 when rowcount is 0; db.commit().
\* An IntegrityError is not caught: the request ends with 500.
update_execute(tables, target, data, pk_name, pk_value, stmts) ==
    LET res == SqlUpdate(tables[target], data, pk_name, pk_value)
        changed == [tables EXCEPT ![target].rows = res.rows]
    IN  IF ~res.ok THEN Outcome(500, stmts, tables, FALSE, NoResult)
        ELSE IF res.rowcount = 0 THEN Outcome(404, stmts, changed, FALSE, NoResult)
        ELSE Outcome(OK, Append(stmts, Stmt("COMMIT", <<>>, NoParams)), changed,
                     TRUE, [status |-> "updated"])

\* PUT /database/tables/{table_name}/rows/{pk_value}
update_database_row(tables, table_name, pk_value, data) ==
    IF ~ensure_table_exists(tables, table_name)
    THEN Outcome(404, <<SelectMaster>>, tables, FALSE, NoResult)
    ELSE
    LET safe_name == sanitize_table_name(table_name)
        target == SqlIdentifier(safe_name)
        columns == get_table_columns(tables, safe_name)
        pk_columns == pk_columns_of(columns)
        s0 == <<SelectMaster, Stmt("PRAGMA table_info", target, NoParams)>>
        s1 == Append(s0, Stmt("UPDATE", target, [data |-> data, _pk_value |-> pk_value]))
    IN  IF Len(pk_columns) # 1 THEN Outcome(400, s0, tables, FALSE, NoResult)
        ELSE IF data = <<>> THEN Outcome(400, s0, tables, FALSE, NoResult)
        ELSE IF invalid_fields_of(data, columns) # {}
             THEN Outcome(400, s0, tables, FALSE, NoResult)
        ELSE IF target \notin DOMAIN tables THEN NoSuchTable(s1, tables)
        ELSE
        update_execute(tables, target, data, pk_columns[1].name, pk_value, s1)

\* POST /database/tables/{table_name}/rows
create_database_row(tables, table_name, data) ==
    IF ~ensure_table_exists(tables, table_name)
    THEN Outcome(404, <<SelectMaster>>, tables, FALSE, NoResult)
    ELSE
    LET safe_name == sanitize_table_name(table_name)
        target == SqlIdentifier(safe_name)
        columns == get_table_columns(tables, safe_name)
        s0 == <<SelectMaster, Stmt("PRAGMA table_info", target, NoParams)>>
        s1 == Append(s0, Stmt("INSERT", target, data))
    IN  IF data = <<>> THEN Outcome(400, s0, tables, FALSE, NoResult)
        ELSE IF invalid_fields_of(data, columns) # {}
             THEN Outcome(400, s0, tables, FALSE, NoResult)
        ELSE IF target \notin DOMAIN tables THEN NoSuchTable(s1, tables)
        ELSE
        LET res == SqlInsert(tables[target], data)
        IN  IF ~res.ok THEN Outcome(500, s1, tables, FALSE, NoResult)
            ELSE Outcome(OK, Append(s1, Stmt("COMMIT", <<>>, NoParams)),
                         [tables EXCEPT ![target].rows = res.rows], TRUE,
                         [status |-> "created"])

\* DELETE /database/tables/{table_name}/rows/{pk_value}
delete_database_row(tables, table_name, pk_value) ==
    IF ~ensure_table_exists(tables, table_name)
    THEN Outcome(404, <<SelectMaster>>, tables, FALSE, NoResult)
    ELSE
    LET safe_name == sanitize_table_name(table_name)
        target == SqlIdentifier(safe_name)
        columns == get_table_columns(tables, safe_name)
        pk_columns == pk_columns_of(columns)
        s0 == <<SelectMaster, Stmt("PRAGMA table_info", target, NoParams)>>
        s1 == Append(s0, Stmt("DELETE", target, [_pk_value |-> pk_value]))
    IN  IF Len(pk_columns) # 1 THEN Outcome(400, s0, tables, FALSE, NoResult)
        ELSE IF target \notin DOMAIN tables THEN NoSuchTable(s1, tables)
        ELSE
        LET res == SqlDelete(tables[target], pk_columns[1].name, pk_value)
            changed == [tables EXCEPT ![target].rows = res.rows]
        IN  IF res.rowcount = 0 THEN Outcome(404, s1, changed, FALSE, NoResult)
            ELSE Outcome(OK, Append(s1, Stmt("COMMIT", <<>>, NoParams)), changed, TRUE,
                         [status |-> "deleted"])

\* Mutant of delete_database_table: db.commit() is left out.
delete_database_table_uncommitted(tables, table_name) ==
    IF ~ensure_table_exists(tables, table_name)
    THEN Outcome(404, <<SelectMaster>>, tables, FALSE, NoResult)
    ELSE Outcome(OK, <<SelectMaster,
                       Stmt("DROP TABLE",
                            SqlIdentifier(sanitize_table_name(table_name)), NoParams)>>,
                 [n \in DOMAIN tables \ {table_name} |-> tables[n]], FALSE,
                 [status |-> "deleted"])

\* DELETE /database/tables/{table_name}
delete_database_table(tables, table_name) ==
    IF ~ensure_table_exists(tables, table_name)
    THEN Outcome(404, <<SelectMaster>>, tables, FALSE, NoResult)
    ELSE
    LET safe_name == sanitize_table_name(table_name)
        target == SqlIdentifier(safe_name)
        s1 == <<SelectMaster, Stmt("DROP TABLE", target, NoParams)>>
    IN  IF target \notin DOMAIN tables THEN NoSuchTable(s1, tables)
        ELSE Outcome(OK, Append(s1, Stmt("COMMIT", <<>>, NoParams)),
                     [n \in DOMAIN tables \ {target} |-> tables[n]], TRUE,
                     [status |-> "deleted"])

\* ------------------------------------------------------------- CSV import
\* An upload: no bytes at all ("empty"), bytes that are not UTF-8
\* ("binary"), or CSV text, given by what csv.reader yields for it: the
\* first line's names as written (fieldnames) and the cells of each
\* further non-blank line.
FileEmpty == [kind |-> "empty", fieldnames |-> <<>>, lines |-> <<>>]
FileBinary == [kind |-> "binary", fieldnames |-> <<>>, lines |-> <<>>]
CsvFile(fieldnames, lines) ==
    [kind |-> "csv", fieldnames |-> fieldnames, lines |-> lines]

\* csv.DictReader: the dict of one data line.  Names are the keys as
\* written in the first line; the last of equal names wins; a line shorter
\* than the header has None (restval) for the names it lacks; cells beyond
\* the header go under the key None, which no column name equals.
DictReaderRow(fieldnames, cells) ==
    [f \in Range(fieldnames) |->
        LET i == CHOOSE j \in 1..Len(fieldnames) :
                    /\ fieldnames[j] = f
                    /\ \A m \in 1..Len(fieldnames) : fieldnames[m] = f => m <= j
        IN  IF i <= Len(cells) THEN cells[i] ELSE None]

\* header = [name.strip() if name else "" for name in (reader.fieldnames or [])]
header_of(fieldnames) ==
    [i \in 1..Len(fieldnames) |->
        IF fieldnames[i] # <<>> THEN strip(fieldnames[i]) ELSE <<>>]

\* Mutant of header_matches: the same names in any order.
header_matches_unordered(header, table_columns) ==
    Range(header) = Range(table_columns)

\* if header != table_columns: 400
header_matches(header, table_columns) == header = table_columns

\* value = row.get(column, "")
row_get(row, column) == IF column \in DOMAIN row THEN row[column] ELSE ""

\* cleaned[column] = None if value == "" else value
clean_value(value) == IF value = "" THEN None ELSE value

clean_row(row, table_columns) ==
    [c \in Range(table_columns) |-> clean_value(row_get(row, c))]

rows_to_insert_of(file, table_columns) ==
    [i \in 1..Len(file.lines) |->
        clean_row(DictReaderRow(file.fieldnames, file.lines[i]), table_columns)]

\* mode.lower(), on the modes a request carries here.
lower(mode) ==
    CASE mode = "OVERWRITE" -> "overwrite"
      [] mode = "Append" -> "append"
      [] OTHER -> mode

\* Mutant of import_transaction: no savepoint, every statement committed as
\* it is executed.
import_autocommit(tables, drv, target, mode, rows_to_insert, stmts) ==
    LET emptied == IF mode = "overwrite"
                   THEN [tables EXCEPT ![target].rows = <<>>] ELSE tables
        ins == SqlInsertMany(emptied[target], rows_to_insert)
        s2 == IF mode = "overwrite"
              THEN Append(stmts, Stmt("DELETE", target, NoParams)) ELSE stmts
        s3 == IF rows_to_insert # <<>>
              THEN Append(s2, Stmt("INSERT", target, rows_to_insert)) ELSE s2
    IN  Outcome(IF ins.ok THEN OK ELSE 500, s3,
                [emptied EXCEPT ![target].rows = ins.rows], TRUE,
                IF ins.ok
                THEN [status |-> "imported", rows |-> Len(rows_to_insert),
                      mode |-> mode]
                ELSE NoResult)

\* with db.begin_nested(): DELETE (overwrite), executemany INSERT.  Leaving
\* the block releases the savepoint; an exception inside it rolls back to
\* the savepoint and propagates.  The handler never calls db.commit(): with
\* the "legacy" driver SAVEPOINT is what opened SQLite's transaction and
\* RELEASE of that outermost savepoint commits it; with a "transactional"
\* driver the work stays pending in the session's transaction.
import_transaction(tables, drv, target, mode, rows_to_insert, stmts) ==
    LET emptied == IF mode = "overwrite"
                   THEN [tables EXCEPT ![target].rows = <<>>] ELSE tables
        ins == SqlInsertMany(emptied[target], rows_to_insert)
        s1 == Append(stmts, Stmt("SAVEPOINT", <<>>, NoParams))
        s2 == IF mode = "overwrite" THEN Append(s1, Stmt("DELETE", target, NoParams)) ELSE s1
        s3 == IF rows_to_insert # <<>> THEN Append(s2, Stmt("INSERT", target, rows_to_insert))
              ELSE s2
    IN  IF ~ins.ok
        THEN Outcome(500, Append(s3, Stmt("ROLLBACK TO SAVEPOINT", <<>>, NoParams)),
                     tables, FALSE, NoResult)
        ELSE Outcome(OK, Append(s3, Stmt("RELEASE SAVEPOINT", <<>>, NoParams)),
                     [emptied EXCEPT ![target].rows = ins.rows], drv = "legacy",
                     [status |-> "imported", rows |-> Len(rows_to_insert),
                      mode |-> mode])

\* POST /database/tables/{table_name}/import
import_database_table(tables, drv, table_name, mode0, file) ==
    LET mode == lower(mode0)
    IN  IF mode \notin {"overwrite", "append"}
        THEN Outcome(400, <<>>, tables, FALSE, NoResult)
        ELSE IF ~ensure_table_exists(tables, table_name)
        THEN Outcome(404, <<SelectMaster>>, tables, FALSE, NoResult)
        ELSE
        LET safe_name == sanitize_table_name(table_name)
            target == SqlIdentifier(safe_name)
            columns == get_table_columns(tables, safe_name)
            table_columns == ColumnNames(columns)
            s0 == <<SelectMaster, Stmt("PRAGMA table_info", target, NoParams)>>
            header == header_of(file.fieldnames)
        IN  IF file.kind = "empty" THEN Outcome(400, s0, tables, FALSE, NoResult)
            ELSE IF file.kind = "binary" THEN Outcome(400, s0, tables, FALSE, NoResult)
            ELSE IF header = <<>> THEN Outcome(400, s0, tables, FALSE, NoResult)
            ELSE IF ~header_matches(header, table_columns)
                 THEN Outcome(400, s0, tables, FALSE, NoResult)
            ELSE IF target \notin DOMAIN tables THEN NoSuchTable(s0, tables)
            ELSE import_transaction(tables, drv, target, mode,
                                    rows_to_insert_of(file, table_columns), s0)

\* exportCsv(table): a header line of the column names in declared order,
\* then one line per row with its cells in that order, a null written as an
\* empty cell.
exportCsv(tbl) ==
    CsvFile(ColumnNames(tbl.columns),
            [i \in 1..Len(tbl.rows) |->
                [j \in 1..Len(tbl.columns) |->
                    IF tbl.rows[i][tbl.columns[j].name] = None THEN ""
                    ELSE tbl.rows[i][tbl.columns[j].name]]])

\* ------------------------------------------------------------ input spaces
Modes == {"overwrite", "append", "OVERWRITE", "merge"}
CsvHeaders ==
    {<<>>, <<ColK>>, <<ColK, ColV>>, <<ColV, ColK>>, <<PaddedK>>, <<PaddedK, ColV>>}
CsvLines == UNION {[1..n -> Cells] : n \in {1, 2}}
CsvBodies == UNION {[1..n -> CsvLines] : n \in 0..MaxCsvRows}
Files == {FileEmpty, FileBinary}
         \cup {CsvFile(h, b) : h \in CsvHeaders, b \in CsvBodies}
SampleFiles ==
    {FileEmpty, CsvFile(<<ColK>>, <<<<"a">>>>),
     CsvFile(<<ColK, ColV>>, <<<<"a", "a">>>>)}
\* The (mode, file) pairs of import requests: every file in the two modes
\* the handler knows, a few files in a mode it lower-cases and in one it
\* rejects.
ImportInputs ==
    ({"overwrite", "append"} \X Files) \cup ((Modes \ {"overwrite", "append"}) \X SampleFiles)

Ops == {"list", "get", "update", "create", "delete", "drop", "import"}

\* The table holds at most MaxRows rows after n more are inserted.
Fits(table_name, base, n) ==
    table_name \in DOMAIN db => base + n <= MaxRows

RowCount(table_name) ==
    IF table_name \in DOMAIN db THEN Len(db[table_name].rows) ELSE 0

\* The worker threads that handle requests in parallel.
ReqIds == {1, 2}
\* A worker with no request, and a request at a statement of its handler:
\* todo are the rows still to insert, work the table's rows as the import's
\* open savepoint has them, rows what a fetch read, stale whether a
\* statement named a table that was gone, overlap where the other request
\* stood when the fetch read.
IdleReq ==
    [op |-> "none", pc |-> "idle", entered |-> FALSE, status |-> 0,
     file |-> NoFile, todo |-> <<>>, work |-> <<>>, rows |-> <<>>,
     stale |-> FALSE, overlap |-> "none"]
NoInflight == [r \in ReqIds |-> IdleReq]

NoRequest ==
    Request("none", None, None, <<>>) @@
    [entered |-> FALSE, status |-> 0, stmts |-> <<>>, result |-> NoResult]

\* The server is between requests: requests are handled one at a time here.
Idle == last = NoRequest

\* The request is answered and its session closed.
Respond(req, out) ==
    /\ db' = SessionClose(db, out)
    /\ pre' = db
    /\ last' = [op |-> req.op, role |-> req.role, header |-> req.header,
                table_name |-> req.table_name, limit |-> req.limit,
                pk_value |-> req.pk_value, data |-> req.data,
                mode |-> req.mode, file |-> req.file,
                password |-> req.password,
                entered |-> TRUE,
                status |-> out.status, stmts |-> out.stmts,
                result |-> out.result]
    /\ passed' = "console"
    /\ UNCHANGED <<settings, driver, inflight, portal>>

Authorized(role, header) == Depends(settings, role, header) = OK

\* A request to a console route whose dependencies raise: the handler is
\* not called.
DependencyFailure ==
    /\ Idle
    /\ \E op \in Ops, role \in Roles, header \in Headers,
       table_name \in TableNames :
        /\ Depends(settings, role, header) # OK
        /\ op = "list" => table_name = TableT
        /\ db' = db
        /\ pre' = db
        /\ last' = [Request(op, role, header,
                            IF op = "list" THEN <<>> ELSE table_name)
                    EXCEPT !.limit = DefaultLimit] @@
                   [entered |-> FALSE,
                    status |-> Depends(settings, role, header),
                    stmts |-> <<>>, result |-> NoResult]
        /\ UNCHANGED <<settings, driver, passed, inflight, portal>>

\* POST /database/login
DatabaseLogin ==
    /\ Idle
    /\ \E role \in Roles, password \in Headers :
        LET status == database_admin_login(settings, role, password)
        IN  /\ last' = [Request("login", role, None, <<>>)
                            EXCEPT !.password = password] @@
                       [entered |-> require_admin(role) = OK /\ password # None,
                        status |-> status, stmts |-> <<>>,
                        result |-> IF status = OK THEN [status |-> "ok"]
                                   ELSE NoResult]
            /\ passed' = IF status = OK /\ passed = "nothing" THEN "login"
                         ELSE passed
            /\ pre' = db
            /\ UNCHANGED <<db, settings, driver, inflight, portal>>

ListTables ==
    /\ Idle
    /\ \E role \in Roles, header \in Headers :
        /\ Authorized(role, header)
        /\ Respond(Request("list", role, header, <<>>), list_database_tables(db))

FetchRows ==
    /\ Idle
    /\ \E role \in Roles, header \in Headers, table_name \in TableNames,
       limit \in Limits :
        /\ Authorized(role, header)
        /\ Respond([Request("get", role, header, table_name) EXCEPT !.limit = limit],
                   get_database_table(db, table_name, limit))

UpdateRow ==
    /\ Idle
    /\ \E role \in Roles, header \in Headers, table_name \in TableNames,
       pk_value \in PkValues, data \in Payloads :
        /\ Authorized(role, header)
        /\ Respond([Request("update", role, header, table_name)
                        EXCEPT !.pk_value = pk_value, !.data = data],
                   update_database_row(db, table_name, pk_value, data))

CreateRow ==
    /\ Idle
    /\ \E role \in Roles, header \in Headers, table_name \in TableNames,
       data \in Payloads :
        /\ Authorized(role, header)
        /\ Fits(table_name, RowCount(table_name), 1)
        /\ Respond([Request("create", role, header, table_name) EXCEPT !.data = data],
                   create_database_row(db, table_name, data))

DeleteRow ==
    /\ Idle
    /\ \E role \in Roles, header \in Headers, table_name \in TableNames,
       pk_value \in PkValues :
        /\ Authorized(role, header)
        /\ Respond([Request("delete", role, header, table_name)
                        EXCEPT !.pk_value = pk_value],
                   delete_database_row(db, table_name, pk_value))

DropTable ==
    /\ Idle
    /\ \E role \in Roles, header \in Headers, table_name \in TableNames :
        /\ Authorized(role, header)
        /\ Respond(Request("drop", role, header, table_name),
                   delete_database_table(db, table_name))

\* An import into a name that is no table is answered before the upload is
\* read: the sample files stand for every upload there.
ImportCsv ==
    /\ Idle
    /\ \E role \in Roles, header \in Headers, table_name \in TableNames,
       input \in ImportInputs :
        LET mode == input[1]
            file == input[2]
        IN  /\ Authorized(role, header)
            /\ table_name \notin DOMAIN db => file \in SampleFiles
            /\ Fits(table_name,
                    IF lower(mode) = "overwrite" THEN 0 ELSE RowCount(table_name),
                    Len(file.lines))
            /\ Respond([Request("import", role, header, table_name)
                            EXCEPT !.mode = mode, !.file = file],
                       import_database_table(db, driver, table_name, mode, file))

\* The response has been sent: the server is ready for the next request.
Deliver ==
    /\ ~Idle
    /\ last' = NoRequest
    /\ pre' = db
    /\ UNCHANGED <<db, settings, driver, passed, inflight, portal>>

\* The console's specifications leave the application's tables empty.
NoPortal ==
    /\ submissions = <<>>
    /\ directions = {}
    /\ users = <<>>
    /\ reviewer_invites = <<>>
    /\ submission_awards = <<>>
    /\ reimbursements = <<>>
    /\ submission_vote_logs = <<>>

Init ==
    /\ db \in Databases
    /\ settings \in SettingsObjects
    /\ driver \in Drivers
    /\ pre = db
    /\ last = NoRequest
    /\ passed = "nothing"
    /\ inflight = NoInflight
    /\ NoPortal

Next ==
    \/ DependencyFailure
    \/ DatabaseLogin
    \/ ListTables
    \/ FetchRows
    \/ UpdateRow
    \/ CreateRow
    \/ DeleteRow
    \/ DropTable
    \/ ImportCsv
    \/ Deliver

Spec == Init /\ [][Next]_vars

\* ------------------------------------------------- requests in parallel
\* Handlers are plain def functions: the server runs each request in a
\* worker thread with a session of its own, so the statements of two
\* requests interleave.  These are two requests on table t, each one of
\* dropTable, fetchRows and an overwrite import.
ConcOps == {"drop", "get", "import"}
ConcFiles ==
    {CsvFile(<<ColK, ColV>>, <<<<"a", "a">>>>),
     CsvFile(<<ColK, ColV>>, <<<<"a", "a">>, <<"", "a">>>>),
     CsvFile(<<ColK, ColV>>, <<<<"a", "a">>, <<"a", "">>>>),
     CsvFile(<<ColK>>, <<<<"a">>>>)}
ConcDatabases ==
    {[n \in {TableT} |-> [columns |-> SinglePk, rows |-> rows]] :
        rows \in {<<>>, <<FullRow(SinglePk, (ColK :> "a" @@ ColV :> ""))>>}}

Other(r) == CHOOSE o \in ReqIds : o # r
\* The store lets one connection write at a time: an import holds the write
\* lock from its DELETE until its transaction ends, and a statement of
\* another connection that writes waits for it.
WriteLocked(r) ==
    /\ inflight[Other(r)].op = "import"
    /\ inflight[Other(r)].pc \in {"insert", "release"}

\* The response is sent and the session closed.
Done(rec, status) == [rec EXCEPT !.pc = "done", !.status = status]

\* Mutant of savepoint_write: the statement is committed as it is executed.
savepoint_write_through(tables, rows) == [tables EXCEPT ![TableT].rows = rows]

\* A DELETE or INSERT inside `with db.begin_nested()`: the committed tables
\* other sessions read stay as they are until the transaction ends.
savepoint_write(tables, rows) == tables

\* The request arrives and its dependencies are resolved.
Arrive(r) ==
    /\ inflight[r].pc = "idle"
    /\ \E op \in ConcOps :
       \E file \in (IF op = "import" THEN ConcFiles ELSE {NoFile}) :
        LET gate == Depends(settings, "admin", Secret)
            rec == [IdleReq EXCEPT !.op = op, !.file = file,
                                   !.entered = gate = OK]
        IN  inflight' = [inflight EXCEPT ![r] =
                            IF gate = OK THEN [rec EXCEPT !.pc = "check"]
                            ELSE Done(rec, gate)]
    /\ UNCHANGED <<db, settings, driver, pre, last, passed, portal>>

\* _ensure_table_exists(db, table_name)
CheckExists(r) ==
    /\ inflight[r].pc = "check"
    /\ inflight' = [inflight EXCEPT ![r] =
            IF ~ensure_table_exists(db, TableT) THEN Done(@, 404)
            ELSE [@ EXCEPT !.pc = IF inflight[r].op = "drop" THEN "drop"
                                  ELSE "columns"]]
    /\ UNCHANGED <<db, settings, driver, pre, last, passed, portal>>

\* _get_table_columns(db, safe_name), and for an import the checks of the
\* upload that follow it.
ReadColumns(r) ==
    /\ inflight[r].pc = "columns"
    /\ LET safe_name == sanitize_table_name(TableT)
           gone == SqlIdentifier(safe_name) \notin DOMAIN db
           table_columns == ColumnNames(get_table_columns(db, safe_name))
           file == inflight[r].file
           rec == [inflight[r] EXCEPT !.stale = @ \/ gone]
       IN  inflight' = [inflight EXCEPT ![r] =
                IF rec.op = "get" THEN [rec EXCEPT !.pc = "select"]
                ELSE IF file.kind # "csv" THEN Done(rec, 400)
                ELSE IF header_of(file.fieldnames) = <<>> THEN Done(rec, 400)
                ELSE IF ~header_matches(header_of(file.fieldnames), table_columns)
                     THEN Done(rec, 400)
                ELSE [rec EXCEPT !.pc = "delete",
                                 !.todo = rows_to_insert_of(file, table_columns)]]
    /\ UNCHANGED <<db, settings, driver, pre, last, passed, portal>>

\* SELECT * FROM "t" LIMIT :limit
SelectRows(r) ==
    /\ inflight[r].pc = "select"
    /\ inflight' = [inflight EXCEPT ![r] =
            IF TableT \in DOMAIN db
            THEN Done([@ EXCEPT !.rows = SqlSelectLimit(db[TableT], DefaultLimit),
                                !.overlap = inflight[Other(r)].pc], OK)
            ELSE Done([@ EXCEPT !.stale = TRUE], 500)]
    /\ UNCHANGED <<db, settings, driver, pre, last, passed, portal>>

\* DROP TABLE "t" and db.commit()
DropExec(r) ==
    /\ inflight[r].pc = "drop"
    /\ ~WriteLocked(r)
    /\ IF TableT \in DOMAIN db
       THEN /\ db' = [n \in DOMAIN db \ {TableT} |-> db[n]]
            /\ inflight' = [inflight EXCEPT ![r] = Done(@, OK)]
       ELSE /\ db' = db
            /\ inflight' = [inflight EXCEPT ![r] = Done([@ EXCEPT !.stale = TRUE], 500)]
    /\ UNCHANGED <<settings, driver, pre, last, passed, portal>>

\* with db.begin_nested(): DELETE FROM "t"
DeleteAll(r) ==
    /\ inflight[r].pc = "delete"
    /\ ~WriteLocked(r)
    /\ IF TableT \in DOMAIN db
       THEN /\ db' = savepoint_write(db, <<>>)
            /\ inflight' = [inflight EXCEPT ![r] = [@ EXCEPT !.pc = "insert", !.work = <<>>]]
       ELSE /\ db' = db
            /\ inflight' = [inflight EXCEPT ![r] = Done([@ EXCEPT !.stale = TRUE], 500)]
    /\ UNCHANGED <<settings, driver, pre, last, passed, portal>>

\* db.execute(insert_query, rows_to_insert), a row at a time; a row the
\* table's constraints refuse raises, the savepoint is rolled back and the
\* request ends.
InsertRow(r) ==
    /\ inflight[r].pc = "insert"
    /\ LET rec == inflight[r]
           one == SqlInsert([columns |-> db[TableT].columns, rows |-> rec.work],
                            Head(rec.todo))
       IN  IF rec.todo = <<>>
           THEN /\ db' = db
                /\ inflight' = [inflight EXCEPT ![r] = [rec EXCEPT !.pc = "release"]]
           ELSE IF one.ok
           THEN /\ db' = savepoint_write(db, one.rows)
                /\ inflight' = [inflight EXCEPT ![r] =
                        [rec EXCEPT !.work = one.rows, !.todo = Tail(rec.todo)]]
           ELSE /\ db' = db
                /\ inflight' = [inflight EXCEPT ![r] = Done([rec EXCEPT !.work = <<>>], 500)]
    /\ UNCHANGED <<settings, driver, pre, last, passed, portal>>

\* Leaving the with block releases the savepoint, which commits with the
\* "legacy" driver; the handler returns without db.commit() and get_db
\* closes the session.
ReleaseSavepoint(r) ==
    /\ inflight[r].pc = "release"
    /\ db' = IF driver = "legacy"
             THEN [db EXCEPT ![TableT].rows = inflight[r].work] ELSE db
    /\ inflight' = [inflight EXCEPT ![r] = Done(@, OK)]
    /\ UNCHANGED <<settings, driver, pre, last, passed, portal>>

InitConc ==
    /\ db \in ConcDatabases
    /\ settings \in SettingsObjects
    /\ driver \in Drivers
    /\ pre = db
    /\ last = NoRequest
    /\ passed = "nothing"
    /\ inflight = NoInflight
    /\ NoPortal

NextConc ==
    \E r \in ReqIds :
        \/ Arrive(r)
        \/ CheckExists(r)
        \/ ReadColumns(r)
        \/ SelectRows(r)
        \/ DropExec(r)
        \/ DeleteAll(r)
        \/ InsertRow(r)
        \/ ReleaseSavepoint(r)

SpecConc == InitConc /\ [][NextConc]_vars

\* ================================================================== claims
\* What the claims speak of, for the request last answered.
Handled(op) == last.op = op /\ last.entered
TableExisted == last.table_name \in DOMAIN pre
PreTable == pre[last.table_name]
PreColumns == ColumnNames(PreTable.columns)
Ran(kind) == \E i \in 1..Len(last.stmts) : last.stmts[i].kind = kind
Unchanged == db = pre
StrippedHeader == [i \in 1..Len(last.file.fieldnames) |-> strip(last.file.fieldnames[i])]
\* The upload passes the import's validation.
Validated ==
    /\ last.file.kind = "csv"
    /\ StrippedHeader # <<>>
    /\ StrippedHeader = PreColumns
\* The rows the import binds to its INSERT.
Bound == rows_to_insert_of(last.file, PreColumns)
\* Inserting the first n bound rows into an emptied table breaks no
\* constraint.
InsertableOnEmpty(n) ==
    ConstraintsOk(PreTable.columns,
                  [i \in 1..n |-> FullRow(PreTable.columns, Bound[i])])

\* An overwrite import whose n-th row is the first to violate a constraint.
OverwriteViolatesAt(n) ==
    /\ Handled("import")
    /\ lower(last.mode) = "overwrite"
    /\ TableExisted
    /\ Validated
    /\ n \in 1..Len(Bound)
    /\ InsertableOnEmpty(n - 1)
    /\ ~InsertableOnEmpty(n)

\* C1: an overwrite import whose CSV passes validation and whose n-th row
\* (after n-1 valid ones, n >= 1) violates a constraint fails, and the
\* committed table holds exactly its pre-import rows.
C1_ImportAtomic ==
    (\E n \in 1..MaxCsvRows : OverwriteViolatesAt(n)) =>
        /\ last.status = 500
        /\ Unchanged

\* One valid row, then a violating one, imported over a table that had rows.
C1_Witness ==
    /\ OverwriteViolatesAt(2)
    /\ PreTable.rows # <<>>
    /\ last.status = 500

\* A write whose payload names something that is no column of the table.
UnknownFieldWrite ==
    /\ Handled("update") \/ Handled("create")
    /\ TableExisted
    /\ \E f \in DOMAIN last.data : f \notin Range(PreColumns)

\* C2: createRow and updateRow with a payload key that is no column of the
\* table fail with 400, run no INSERT or UPDATE, and change no row.
C2_UnknownFieldRejected ==
    UnknownFieldWrite =>
        /\ last.status = 400
        /\ ~Ran("INSERT") /\ ~Ran("UPDATE")
        /\ Unchanged

\* An update of an existing row whose payload has a valid and an unknown key.
C2_Witness ==
    /\ UnknownFieldWrite
    /\ Handled("update")
    /\ \E f \in DOMAIN last.data : f \in Range(PreColumns)
    /\ Cardinality(PkNames(PreTable.columns)) = 1
    /\ \E i \in 1..Len(PreTable.rows) : PreTable.rows[i][ColK] = last.pk_value
    /\ last.status = 400

\* A row operation on a table without exactly one primary-key column.
NoSinglePkRowOp ==
    /\ Handled("update") \/ Handled("delete")
    /\ TableExisted
    /\ Cardinality({i \in 1..Len(PreTable.columns) : PreTable.columns[i].pk}) # 1

\* C3: on a table with zero or at least two primary-key columns updateRow
\* and deleteRow fail with 400 whatever pkValue and payload are, run no
\* UPDATE or DELETE, and leave the rows unchanged.
C3_NoSinglePkRefused ==
    NoSinglePkRowOp =>
        /\ last.status = 400
        /\ ~Ran("UPDATE") /\ ~Ran("DELETE")
        /\ Unchanged

\* A delete on a composite-key table whose first key column matches pkValue.
C3_Witness ==
    /\ NoSinglePkRowOp
    /\ Handled("delete")
    /\ Len(PreTable.columns) = 2
    /\ \E i \in 1..Len(PreTable.rows) : PreTable.rows[i][ColK] = last.pk_value
    /\ last.status = 400

\* C4: a console operation runs statements only for an admin whose header
\* equals the configured secret, and an admin's request whose header does
\* not match the secret fails with 403 without running a statement.
C4_GateForbids ==
    last.op \in Ops =>
        /\ (last.role # "admin" \/ last.header # Secret) => last.stmts = <<>>
        /\ (last.role = "admin" /\ last.header \notin {Secret, None}) =>
                last.status = 403

\* A console operation on a name that was no table when the request came.
MissingTableOp ==
    /\ last.op \in Ops \ {"list"}
    /\ last.entered
    /\ ~TableExisted
    /\ last.op = "import" => lower(last.mode) \in {"overwrite", "append"}

\* C5: a console operation on a name that is not in listTables() when it is
\* called fails with 404 and runs no statement that names it: the lookup in
\* sqlite_master is all it executes.
C5_MissingTable404 ==
    MissingTableOp =>
        /\ last.status = 404
        /\ last.stmts = <<SelectMaster>>
        /\ Unchanged

\* An import of a well-formed CSV into a table that was dropped before.
C5_Witness ==
    /\ MissingTableOp
    /\ Handled("import")
    /\ last.table_name = TableT
    /\ last.file.kind = "csv"
    /\ last.file.lines # <<>>
    /\ last.status = 404

\* An update the handler's checks let through: one primary-key column, a
\* non-empty payload, every key a column.
ValidUpdate ==
    /\ Handled("update")
    /\ TableExisted
    /\ Cardinality(PkNames(PreTable.columns)) = 1
    /\ last.data # <<>>
    /\ DOMAIN last.data \subseteq Range(PreColumns)
PkName == CHOOSE c \in PkNames(PreTable.columns) : TRUE
Matched == {i \in 1..Len(PreTable.rows) : PreTable.rows[i][PkName] = last.pk_value}
\* The table's rows with the payload written over the matched row.
Updated ==
    [i \in 1..Len(PreTable.rows) |->
        IF i \in Matched
        THEN [c \in DOMAIN PreTable.rows[i] |->
                IF c \in DOMAIN last.data THEN last.data[c] ELSE PreTable.rows[i][c]]
        ELSE PreTable.rows[i]]
UpdateApplied ==
    /\ last.status = OK
    /\ db = [pre EXCEPT ![last.table_name].rows = Updated]
    /\ get_database_table(db, last.table_name, DefaultLimit).result.rows = Updated

\* C6 as claimed: a valid update of a missing key answers 404 and changes
\* nothing; of an existing key it succeeds and the row takes the payload.
C6_UpdateAsClaimed ==
    ValidUpdate =>
        /\ Matched = {} => last.status = 404 /\ Unchanged
        /\ Matched # {} => UpdateApplied

\* C6, amended: a valid update of a missing key answers 404 and changes
\* nothing; of an existing key it succeeds, the matched row takes the
\* payload values, everything else stays and a later fetchRows shows it,
\* provided the updated table satisfies its constraints; otherwise the
\* request fails (500) and nothing changes.
C6_UpdateRow ==
    ValidUpdate =>
        /\ Matched = {} => last.status = 404 /\ Unchanged
        /\ (Matched # {} /\ ConstraintsOk(PreTable.columns, Updated)) => UpdateApplied
        /\ (Matched # {} /\ ~ConstraintsOk(PreTable.columns, Updated)) =>
                last.status = 500 /\ Unchanged

\* A successful update that changed one of two rows.
C6_Witness ==
    /\ ValidUpdate
    /\ Matched # {}
    /\ Len(PreTable.rows) = 2
    /\ last.status = OK
    /\ ~Unchanged

ImportOk(mode) ==
    /\ Handled("import")
    /\ lower(last.mode) = mode
    /\ last.status = OK
BoundRows == [i \in 1..Len(Bound) |-> FullRow(PreTable.columns, Bound[i])]

\* C7: after an overwrite import that answered "imported", the committed
\* table holds exactly the CSV's rows.
C7_OverwriteVisible ==
    ImportOk("overwrite") => db[last.table_name].rows = BoundRows

\* C8: after an append import that answered "imported", the committed table
\* holds its former rows and, after them, the CSV's rows.
C8_AppendVisible ==
    ImportOk("append") => db[last.table_name].rows = PreTable.rows \o BoundRows

\* An import of CSV text into an existing table, in a mode the handler knows.
CsvImport ==
    /\ Handled("import")
    /\ lower(last.mode) \in {"overwrite", "append"}
    /\ TableExisted
    /\ last.file.kind = "csv"
ImportRejected ==
    /\ last.status = 400
    /\ ~Ran("DELETE") /\ ~Ran("INSERT")
    /\ Unchanged

InsertParams ==
    last.stmts[CHOOSE i \in 1..Len(last.stmts) : last.stmts[i].kind = "INSERT"].params

\* C10: for an accepted CSV every data row is bound as a map with one entry
\* per table column, in which the cell at a column's header position is
\* null when it is the empty string and is the cell's value otherwise.
C10_CellsKept ==
    (CsvImport /\ Validated /\ Ran("INSERT")) =>
        /\ Len(InsertParams) = Len(last.file.lines)
        /\ \A i \in 1..Len(last.file.lines) :
            /\ DOMAIN InsertParams[i] = Range(PreColumns)
            /\ \A j \in 1..Len(PreColumns) :
                j <= Len(last.file.lines[i]) =>
                    InsertParams[i][PreColumns[j]] =
                        IF last.file.lines[i][j] = "" THEN None
                        ELSE last.file.lines[i][j]

\* A delete the handler's checks let through: the table exists and has one
\* primary-key column.
ValidDelete ==
    /\ Handled("delete")
    /\ TableExisted
    /\ Cardinality(PkNames(PreTable.columns)) = 1
\* The table's rows without the matched ones, in their order.
Remaining == SelectSeq(PreTable.rows, LAMBDA r : r[PkName] # last.pk_value)

\* C11: on a table with one primary-key column, deleteRow answers 404 and
\* removes nothing when no row's key equals pkValue; when a row's key does,
\* it succeeds, that row is gone and every other row is as it was.
C11_DeleteRow ==
    ValidDelete =>
        /\ Matched = {} => last.status = 404 /\ Unchanged
        /\ Matched # {} =>
                /\ last.status = OK
                /\ Cardinality(Matched) = 1
                /\ db = [pre EXCEPT ![last.table_name].rows = Remaining]

\* A successful delete of one of two rows.
C11_Witness ==
    /\ ValidDelete
    /\ Matched # {}
    /\ Len(PreTable.rows) = 2
    /\ last.status = OK
    /\ Len(db[last.table_name].rows) = 1

\* A create on an existing table.
CreateOn == Handled("create") /\ TableExisted
\* The row the payload describes: its values, NULL in the columns it omits.
PayloadRow ==
    [c \in Range(PreColumns) |->
        IF c \in DOMAIN last.data THEN last.data[c] ELSE None]
\* A non-empty payload of column names whose row the table's constraints
\* admit.
Insertable ==
    /\ last.data # <<>>
    /\ DOMAIN last.data \subseteq Range(PreColumns)
    /\ ConstraintsOk(PreTable.columns, Append(PreTable.rows, PayloadRow))

\* C12: createRow with an empty payload answers 400 and inserts nothing;
\* with a non-empty payload of column names and values the constraints
\* admit it succeeds, the table gains exactly the payload's row and the
\* rows it had are unchanged.
C12_CreateRow ==
    CreateOn =>
        /\ last.data = <<>> =>
                last.status = 400 /\ ~Ran("INSERT") /\ Unchanged
        /\ Insertable =>
                /\ last.status = OK
                /\ db = [pre EXCEPT ![last.table_name].rows =
                                        Append(PreTable.rows, PayloadRow)]

\* A successful create into a table that had a row, the payload leaving a
\* column out.
C12_Witness ==
    /\ CreateOn
    /\ Insertable
    /\ PreTable.rows # <<>>
    /\ Len(PreColumns) = 2
    /\ Cardinality(DOMAIN last.data) = 1
    /\ last.status = OK
    /\ Len(db[last.table_name].rows) = 2

\* A fetchRows that was answered with rows.
Fetched == Handled("get") /\ TableExisted /\ last.status = OK
Min(a, b) == IF a < b THEN a ELSE b

\* C14: fetchRows with a limit of zero or less answers what fetchRows with
\* limit 200 answers; with a positive limit it answers min(limit, number of
\* rows) rows, each a row of the table.
C14_FetchLimit ==
    Fetched =>
        /\ last.limit <= 0 =>
                last.result = get_database_table(pre, last.table_name, 200).result
        /\ last.limit > 0 =>
                /\ Len(last.result.rows) = Min(last.limit, Len(PreTable.rows))
                /\ \A i \in 1..Len(last.result.rows) :
                        \E j \in 1..Len(PreTable.rows) :
                            last.result.rows[i] = PreTable.rows[j]

\* A fetch with limit 1 from a table of two rows.
C14_Witness ==
    /\ Fetched
    /\ last.limit = 1
    /\ Len(PreTable.rows) = 2
    /\ Len(last.result.rows) = 1

\* C15: fetchRows reports the name of the only primary-key column when the
\* table has exactly one, and no name both when it has none and when it has
\* two or more: a name is reported exactly for the tables updateRow and
\* deleteRow accept.
C15_PrimaryKeyReported ==
    Fetched =>
        last.result.primary_key =
            IF Cardinality(PkNames(PreTable.columns)) = 1 THEN PkName ELSE <<>>

\* A console operation on table t after t was dropped: t is in every
\* initial database, and only dropTable removes a table.
AfterDrop ==
    /\ last.op \in Ops \ {"list"}
    /\ last.entered
    /\ last.table_name = TableT
    /\ ~TableExisted
\* A dropTable of a table that existed.
DropOn == Handled("drop") /\ TableExisted
Dropped ==
    /\ last.status = OK
    /\ last.table_name \notin Range(list_database_tables(db).result.tables)
    /\ DOMAIN db = DOMAIN pre \ {last.table_name}
    /\ \A n \in DOMAIN db : db[n] = pre[n]

\* C13 as claimed: dropTable of an existing table succeeds, takes it out of
\* listTables() and affects no other table; after that every console
\* operation on the name answers 404.
C13_DropAsClaimed ==
    /\ DropOn => Dropped
    /\ AfterDrop => last.status = 404 /\ Unchanged

\* C13, amended: dropTable of an existing table succeeds, takes it out of
\* listTables() and affects no other table; after that a second dropTable
\* answers 404, as do fetchRows, updateRow, createRow, deleteRow and an
\* importCsv with mode append or overwrite on that name; an importCsv with
\* any other mode answers 400.  None of them changes anything.
C13_DropTable ==
    /\ DropOn => Dropped
    /\ AfterDrop =>
        /\ Unchanged
        /\ last.status =
            IF last.op = "import" /\ lower(last.mode) \notin {"overwrite", "append"}
            THEN 400 ELSE 404

\* The second dropTable of t, answered 404, the other table still there with
\* its rows.
C13_Witness ==
    /\ AfterDrop
    /\ last.op = "drop"
    /\ last.status = 404
    /\ TableQ \in DOMAIN db
    /\ db[TableQ].rows # <<>>

\* The statements of the last request that name a table.
Targeted == {i \in 1..Len(last.stmts) : last.stmts[i].target # <<>>}
KindAt(i) == last.stmts[i].kind

C16_GateStateless ==
    (last.op \in Ops /\ last.header # Secret) =>
        /\ last.status # OK
        /\ ~last.entered
        /\ last.stmts = <<>>
        /\ Unchanged

\* An admin's console call with a wrong header, refused after a login with
\* the right password had succeeded.
C16_Witness ==
    /\ last.op \in Ops
    /\ last.role = "admin"
    /\ last.header = "wrong"
    /\ passed = "login"
    /\ last.status = 403

\* An overwrite import into a table of the file exported from it.
RoundTrip ==
    /\ Handled("import")
    /\ lower(last.mode) = "overwrite"
    /\ TableExisted
    /\ last.file = exportCsv(PreTable)
\* The rows with every empty-string cell made null.
Nullified(rows) ==
    [i \in 1..Len(rows) |->
        [c \in DOMAIN rows[i] |-> IF rows[i][c] = "" THEN None ELSE rows[i][c]]]

\* C17: exportCsv followed by an overwrite import of that file leaves the
\* table with its original rows, the cells that were null or the empty
\* string being null; the table then exports to the same file, so that a
\* second round trip changes nothing.
C17_RoundTrip ==
    RoundTrip =>
        /\ last.status = OK
        /\ db[last.table_name].rows = Nullified(PreTable.rows)
        /\ exportCsv(db[last.table_name]) = last.file

\* Both requests were dropTable, both reached the handler and were answered.
TwoDrops ==
    \A r \in ReqIds :
        /\ inflight[r].op = "drop"
        /\ inflight[r].entered
        /\ inflight[r].pc = "done"

\* C18: of two dropTable requests on the same table handled in parallel, one
\* answers deleted and the other 404, however their existence checks and
\* DROP statements interleave; and no request executes a statement that
\* names a table another request has dropped.
C18_DropRace ==
    /\ TwoDrops => {inflight[r].status : r \in ReqIds} = {OK, 404}
    /\ \A r \in ReqIds : ~inflight[r].stale

\* A fetch answered with rows while the other request was an import.
FetchedBeside(r) ==
    /\ inflight[r].op = "get"
    /\ inflight[r].pc = "done"
    /\ inflight[r].status = OK
    /\ inflight[Other(r)].op = "import"
\* The rows the upload of request o puts in place of the table's.
ImportedRows(o) ==
    LET bound == rows_to_insert_of(inflight[o].file, ColumnNames(pre[TableT].columns))
    IN  [i \in 1..Len(bound) |-> FullRow(pre[TableT].columns, bound[i])]

\* C19: a fetchRows handled while an overwrite import is under way reads
\* either the rows the table had before the import or the rows of the
\* upload, never the emptied table or a part of the new rows.
C19_ImportIsolated ==
    \A r \in ReqIds :
        FetchedBeside(r) =>
            \/ inflight[r].rows = pre[TableT].rows
            \/ inflight[r].rows = ImportedRows(Other(r))

\* A fetch that read between the import's DELETE and the end of its inserts
\* and was answered the rows the table had before.
C19_Witness ==
    \E r \in ReqIds :
        /\ FetchedBeside(r)
        /\ inflight[r].overlap = "insert"
        /\ pre[TableT].rows # <<>>
        /\ inflight[r].rows = pre[TableT].rows


\* ======================================================= the application
\* The routes outside the console work on the ORM's tables.  A table is a
\* function from the ids of its rows to the rows.
MaxSubmissions == 2

Tracks == {"poster", "demo"}
ReviewStatuses == {"pending", "approved", "rejected"}
Unset == "Unset"          \* a field the request's payload does not have
\* Integers are kept apart from strings: NULL in an integer column (ids and
\* sequence numbers start at 1) and a number the payload lacks.
Null == 0
Absent == -1

\* The id SQLite gives the next row of a table: one more than the largest.
RECURSIVE MaxOf(_)
MaxOf(ids) ==
    IF ids = {} THEN 0
    ELSE LET i == CHOOSE x \in ids : TRUE
             m == MaxOf(ids \ {i})
         IN  IF i > m THEN i ELSE m
NextId(table) == MaxOf(DOMAIN table) + 1
Without(table, id) == [i \in DOMAIN table \ {id} |-> table[i]]

\* A user row; the columns the modelled routes read or write.
User(role) ==
    [role |-> role, email |-> None, reviewer_direction_id |-> Null,
     reviewer_invite_id |-> Null]
\* An administrator and an author.
Staff == (1 :> User("admin")) @@ (2 :> User("author"))

\* A new row of submissions with the column defaults.  Rows are created with
\* created_at = utcnow() and the largest id, so the order of created_at is
\* the order of the ids.
Submission(author_id, track, direction_id) ==
    [sequence_no |-> Null, track |-> track, review_status |-> "pending",
     award |-> None, direction_id |-> direction_id, author_id |-> author_id,
     vote_innovation |-> 0, vote_impact |-> 0, vote_feasibility |-> 0]

require_author(user) == IF user.role # "author" THEN 403 ELSE OK
require_direction(direction_id) ==
    IF direction_id = Null THEN 400
    ELSE IF direction_id \notin directions THEN 404
    ELSE OK

\* What the history variable last holds of a request to the application.
Reply(op, status, arg) == [op |-> op, status |-> status, arg |-> arg]
console == <<db, settings, driver, passed, inflight>>

\* A dependency of the route raised: the handler is not called.
Refused(op, status) ==
    /\ last' = Reply(op, status, None)
    /\ pre' = submissions
    /\ UNCHANGED submissions

\* POST /api/authors/submissions
create_submission(tracks, direction_ids) ==
    \E caller \in DOMAIN users :
        IF require_author(users[caller]) # OK
        THEN Refused("create_submission", require_author(users[caller]))
        ELSE \E track \in tracks, direction_id \in direction_ids :
            LET status == require_direction(direction_id)
                id == NextId(submissions)
            IN  /\ status = OK => id <= MaxSubmissions
                /\ submissions' =
                     IF status = OK
                     THEN submissions @@
                          (id :> Submission(caller, track, direction_id))
                     ELSE submissions
                /\ last' = Reply("create_submission", status, None)
                /\ pre' = submissions

\* PUT /api/authors/submissions/{submission_id}
update_submission(tracks, direction_ids) ==
    \E caller \in DOMAIN users :
        IF require_author(users[caller]) # OK
        THEN Refused("update_submission", require_author(users[caller]))
        ELSE \E submission_id \in 1..MaxSubmissions, track \in tracks,
                direction_id \in direction_ids :
            LET found == /\ submission_id \in DOMAIN submissions
                         /\ submissions[submission_id].author_id = caller
                status == IF ~found THEN 404
                          ELSE require_direction(direction_id)
            IN  /\ submissions' =
                     IF status = OK
                     THEN [submissions EXCEPT ![submission_id] =
                              [@ EXCEPT !.track = track,
                                        !.direction_id = direction_id,
                                        !.review_status = "pending"]]
                     ELSE submissions
                /\ last' = Reply("update_submission", status, None)
                /\ pre' = submissions

\* DELETE /api/authors/submissions/{submission_id}
delete_submission ==
    \E caller \in DOMAIN users :
        IF require_author(users[caller]) # OK
        THEN Refused("delete_submission", require_author(users[caller]))
        ELSE \E submission_id \in 1..MaxSubmissions :
            LET found == /\ submission_id \in DOMAIN submissions
                         /\ submissions[submission_id].author_id = caller
                status == IF ~found THEN 404 ELSE OK
            IN  /\ submissions' = IF status = OK
                                  THEN Without(submissions, submission_id)
                                  ELSE submissions
                /\ last' = Reply("delete_submission", status, None)
                /\ pre' = submissions

\* PATCH /api/admin/submissions/{submission_id}; a field of the payload is
\* a value or unset.
admin_update_submission(direction_ids, review_statuses, tracks) ==
    \E caller \in DOMAIN users :
        IF require_admin(users[caller].role) # OK
        THEN Refused("admin_update_submission", require_admin(users[caller].role))
        ELSE \E submission_id \in 1..MaxSubmissions,
                direction_id \in direction_ids,
                review_status \in review_statuses, track \in tracks :
            LET status ==
                    IF submission_id \notin DOMAIN submissions THEN 404
                    ELSE IF direction_id \notin {Absent, Null} \cup directions
                    THEN 404
                    ELSE OK
                s0 == submissions[submission_id]
                s1 == IF direction_id # Absent
                      THEN [s0 EXCEPT !.direction_id = direction_id] ELSE s0
                s2 == IF review_status # Unset
                      THEN [s1 EXCEPT
                               !.review_status = review_status,
                               !.sequence_no = IF review_status # "approved"
                                               THEN Null ELSE @]
                      ELSE s1
                s3 == IF track \notin {Unset, None}
                      THEN [s2 EXCEPT !.track = track] ELSE s2
            IN  /\ submissions' =
                     IF status = OK
                     THEN [submissions EXCEPT ![submission_id] = s3]
                     ELSE submissions
                /\ last' = Reply("admin_update_submission", status, None)
                /\ pre' = submissions

\* DELETE /api/admin/submissions/{submission_id}
admin_delete_submission ==
    \E caller \in DOMAIN users :
        IF require_admin(users[caller].role) # OK
        THEN Refused("admin_delete_submission", require_admin(users[caller].role))
        ELSE \E submission_id \in 1..MaxSubmissions :
            LET status == IF submission_id \notin DOMAIN submissions
                          THEN 404 ELSE OK
            IN  /\ submissions' = IF status = OK
                                  THEN Without(submissions, submission_id)
                                  ELSE submissions
                /\ last' = Reply("admin_delete_submission", status, None)
                /\ pre' = submissions

\* The approved submissions of a track, and the place of one of them in the
\* order of created_at.
Approved(table, track) ==
    {i \in DOMAIN table :
        table[i].track = track /\ table[i].review_status = "approved"}
Place(ids, id) == Cardinality({j \in ids : j <= id})

\* POST /api/admin/submissions/renumber?track=
admin_renumber_submissions ==
    \E caller \in DOMAIN users :
        IF require_admin(users[caller].role) # OK
        THEN Refused("admin_renumber_submissions",
                     require_admin(users[caller].role))
        ELSE \E track \in Tracks :
            LET approved == Approved(submissions, track)
            IN  /\ submissions' =
                     [i \in DOMAIN submissions |->
                         IF i \in approved
                         THEN [submissions[i] EXCEPT
                                  !.sequence_no = Place(approved, i)]
                         ELSE submissions[i]]
                /\ last' = Reply("admin_renumber_submissions", OK, track)
                /\ pre' = submissions

\* POST /api/admin/submissions/clear
clear_submissions ==
    \E caller \in DOMAIN users :
        LET status == require_admin(users[caller].role)
        IN  /\ submissions' = IF status = OK THEN <<>> ELSE submissions
            /\ submission_vote_logs' =
                 IF status = OK THEN <<>> ELSE submission_vote_logs
            /\ last' = Reply("clear_submissions", status, None)
            /\ pre' = submissions

NoReply == Reply("none", 0, None)
others == <<directions, users, reviewer_invites, submission_awards,
            reimbursements>>

\* The application's specifications leave the console at rest.
ConsoleAtRest ==
    /\ db = TwoTables /\ settings = SettingsExpected /\ driver = "legacy"
    /\ passed = "nothing" /\ inflight = NoInflight

InitSubmissions ==
    /\ ConsoleAtRest
    /\ pre = <<>> /\ last = NoReply
    /\ submissions = <<>>
    /\ directions = {1}
    /\ users = Staff
    /\ reviewer_invites = <<>>
    /\ submission_awards = <<>>
    /\ reimbursements = <<>>
    /\ submission_vote_logs = <<>>

NextSubmissions ==
    \/ /\ create_submission(Tracks, {Null, 1})
       /\ UNCHANGED <<console, others, submission_vote_logs>>
    \/ /\ update_submission(Tracks, {Null, 1})
       /\ UNCHANGED <<console, others, submission_vote_logs>>
    \/ delete_submission /\ UNCHANGED <<console, others, submission_vote_logs>>
    \/ /\ admin_update_submission({Absent}, ReviewStatuses \cup {Unset},
                                  Tracks \cup {Unset})
       /\ UNCHANGED <<console, others, submission_vote_logs>>
    \/ admin_delete_submission /\ UNCHANGED <<console, others, submission_vote_logs>>
    \/ admin_renumber_submissions /\ UNCHANGED <<console, others, submission_vote_logs>>
    \/ clear_submissions /\ UNCHANGED <<console, others>>

SpecSubmissions == InitSubmissions /\ [][NextSubmissions]_vars


\* The numbering routes alone, on a table of submissions the authors have
\* created.
InitNumbering ==
    /\ ConsoleAtRest
    /\ pre = <<>> /\ last = NoReply
    /\ submissions \in
         {[i \in 1..MaxSubmissions |-> Submission(2, tracks[i], 1)] :
             tracks \in [1..MaxSubmissions -> Tracks]}
    /\ directions = {1}
    /\ users = Staff
    /\ reviewer_invites = <<>>
    /\ submission_awards = <<>>
    /\ reimbursements = <<>>
    /\ submission_vote_logs = <<>>

NextNumbering ==
    \/ /\ admin_update_submission({Absent}, ReviewStatuses \cup {Unset},
                                  Tracks \cup {Unset})
       /\ UNCHANGED <<console, others, submission_vote_logs>>
    \/ admin_renumber_submissions /\ UNCHANGED <<console, others, submission_vote_logs>>

SpecNumbering == InitNumbering /\ [][NextNumbering]_vars

\* C21: in every state the submission routes reach (create_submission,
\* update_submission and delete_submission of the author,
\* admin_update_submission, admin_delete_submission,
\* admin_renumber_submissions, clear_submissions), a submission whose
\* sequence_no is not null has review_status approved.
C21_NumberedIsApproved ==
    \A i \in DOMAIN submissions :
        submissions[i].sequence_no # Null =>
            submissions[i].review_status = "approved"

Renumbered ==
    last.op = "admin_renumber_submissions" /\ last.status = OK
Numbered(track) ==
    {i \in DOMAIN submissions :
        /\ submissions[i].track = track
        /\ submissions[i].review_status = "approved"}

\* C29: admin_renumber_submissions(track) gives the n approved submissions
\* of the track the numbers 1..n, each once, in the order of created_at; and
\* in every state admin_renumber_submissions and admin_update_submission
\* reach, no two approved submissions of one track carry the same non-null
\* sequence_no.
C29_SequenceNumbers ==
    /\ Renumbered =>
        /\ {submissions[i].sequence_no : i \in Numbered(last.arg)} =
               1..Cardinality(Numbered(last.arg))
        /\ \A i, j \in Numbered(last.arg) :
               i < j => submissions[i].sequence_no < submissions[j].sequence_no
    /\ \A track \in Tracks : \A i, j \in Numbered(track) :
           (i # j /\ submissions[i].sequence_no # Null) =>
               submissions[i].sequence_no # submissions[j].sequence_no


\* ---------------------------------------------------------------- awards
MaxAwardIds == 2

\* The awards table: id -> name (names are unique).
Awards == (1 :> "gold") @@ (2 :> "silver")
AwardIdLists == UNION {[1..n -> {1, 2, 3}] : n \in 0..MaxAwardIds}

\* ",".join(tags)
RECURSIVE join(_)
join(tags) ==
    IF Len(tags) <= 1 THEN tags
    ELSE <<Head(tags), ",">> \o join(Tail(tags))

\* The award_records collection of a submission as the session loaded it.
award_records(records, submission_id) ==
    LET Mine(rec) == rec.submission_id = submission_id
    IN  SelectSeq(records, Mine)

\* compute_award_tags for a submission without recommendations, and
\* update_submission_award_text: the value it stores in submission.award.
\* "no-award" and "recommended" stand for the two tags that are no award
\* names.
compute_award_tags(loaded) ==
    IF loaded = <<>> THEN <<"no-award">>
    ELSE [k \in 1..Len(loaded) |-> Awards[loaded[k].award_id]]
update_submission_award_text(loaded) ==
    LET Kept(tag) == tag \notin {"no-award", "recommended"}
        tags == SelectSeq(compute_award_tags(loaded), Kept)
    IN  IF tags # <<>> THEN join(tags) ELSE None

\* POST /api/awards/submissions/{submission_id}/assign.  The text is
\* computed from submission.award_records as the query loaded it: db.delete
\* and db.add change the session, not that collection.  Two new rows for one
\* award break uq_submission_award when the session is flushed.
assign_awards ==
    \E caller \in DOMAIN users :
        IF require_admin(users[caller].role) # OK
        THEN /\ Refused("assign_awards", require_admin(users[caller].role))
             /\ UNCHANGED submission_awards
        ELSE \E submission_id \in 1..MaxSubmissions, award_ids \in AwardIdLists :
            LET loaded == award_records(submission_awards, submission_id)
                existing == {loaded[k].award_id : k \in 1..Len(loaded)}
                desired == Range(award_ids)
                Stays(rec) == rec.submission_id # submission_id
                                \/ rec.award_id \in desired
                New(award_id) == award_id \notin existing
                added == SelectSeq(award_ids, New)
                status ==
                    IF submission_id \notin DOMAIN submissions THEN 404
                    ELSE IF ~(desired \subseteq DOMAIN Awards) THEN 404
                    ELSE IF Cardinality(Range(added)) # Len(added) THEN 500
                    ELSE OK
            IN  /\ submission_awards' =
                     IF status = OK
                     THEN SelectSeq(submission_awards, Stays) \o
                          [k \in 1..Len(added) |->
                              [submission_id |-> submission_id,
                               award_id |-> added[k]]]
                     ELSE submission_awards
                /\ submissions' =
                     IF status = OK
                     THEN [submissions EXCEPT ![submission_id].award =
                              update_submission_award_text(loaded)]
                     ELSE submissions
                /\ last' = Reply("assign_awards", status,
                                 [submission_id |-> submission_id,
                                  award_ids |-> award_ids])
                /\ pre' = submissions

InitAwards ==
    /\ ConsoleAtRest
    /\ pre = <<>> /\ last = NoReply
    /\ submissions = (1 :> Submission(2, "poster", 1))
    /\ directions = {1}
    /\ users = Staff
    /\ reviewer_invites = <<>>
    /\ submission_awards = <<>>
    /\ reimbursements = <<>>
    /\ submission_vote_logs = <<>>

NextAwards ==
    /\ assign_awards
    /\ UNCHANGED <<console, directions, users, reviewer_invites,
                   reimbursements, submission_vote_logs>>

SpecAwards == InitAwards /\ [][NextAwards]_vars

Assigned ==
    /\ last.op = "assign_awards"
    /\ last.status = OK
    /\ Range(last.arg.award_ids) \subseteq DOMAIN Awards
AwardsOf(submission_id) ==
    {submission_awards[k].award_id :
        k \in {n \in 1..Len(submission_awards) :
                  submission_awards[n].submission_id = submission_id}}
NamesIn(text) == IF text = None THEN {} ELSE Range(text) \ {","}

\* C22: after assign_awards(submission, award_ids) has succeeded with every
\* id naming an existing award, the award records of the submission are
\* exactly the set of award_ids, and the stored submission.award is the
\* comma-joined names of exactly those awards, null when the set is empty.
C22_AssignAwards ==
    Assigned =>
        LET sid == last.arg.submission_id
            ids == Range(last.arg.award_ids)
        IN  /\ AwardsOf(sid) = ids
            /\ NamesIn(submissions[sid].award) = {Awards[a] : a \in ids}
            /\ ids = {} <=> submissions[sid].award = None
            /\ submissions[sid].award # None =>
                   Len(submissions[sid].award) = 2 * Cardinality(ids) - 1


\* ------------------------------------------------- users, in parallel
\* update_user and delete_user are `def` routes: the server runs them on
\* worker threads, each with its own session, so what one request has read
\* can be changed by another before it commits.
UserRoles == {"admin", "volunteer"}
\* Two administrators.
Accounts == (1 :> User("admin")) @@ (2 :> User("admin"))
users_rest == <<db, settings, driver, passed, pre, last, submissions,
                directions, reviewer_invites, submission_awards,
                reimbursements, submission_vote_logs>>

IdleCall ==
    [pc |-> "idle", op |-> "none", admin |-> Null, user_id |-> Null,
     role |-> Unset, loaded |-> Unset, status |-> 0]
Answered(call, status) == [call EXCEPT !.pc = "done", !.status = status]

\* get_current_user and require_admin: the session reads the row the token
\* names.
Authenticate(r) ==
    /\ inflight[r].pc \in {"idle", "done"}
    /\ \E token \in DOMAIN Accounts, op \in {"update_user", "delete_user"},
          user_id \in DOMAIN Accounts, role \in UserRoles \cup {Unset} :
        LET call == [IdleCall EXCEPT !.op = op, !.admin = token,
                                     !.user_id = user_id,
                                     !.role = IF op = "update_user" THEN role
                                              ELSE Unset]
        IN  /\ op = "delete_user" => role = Unset
            /\ inflight' = [inflight EXCEPT ![r] =
                 IF token \notin DOMAIN users THEN Answered(call, 401)
                 ELSE IF users[token].role # "admin" THEN Answered(call, 403)
                 ELSE [call EXCEPT !.pc = "load"]]
    /\ UNCHANGED <<users, users_rest>>

\* update_user up to db.add(user): the row is read and user.role assigned.
UpdateUserLoad(r) ==
    /\ inflight[r].pc = "load"
    /\ inflight[r].op = "update_user"
    /\ LET call == inflight[r]
       IN  inflight' = [inflight EXCEPT ![r] =
             IF call.user_id \notin DOMAIN users THEN Answered(call, 404)
             ELSE IF /\ call.role # Unset
                     /\ call.user_id = call.admin
                     /\ call.role # "admin"
             THEN Answered(call, 400)
             ELSE [call EXCEPT !.pc = "commit",
                               !.loaded = users[call.user_id].role]]
    /\ UNCHANGED <<users, users_rest>>

\* db.commit() of update_user: an UPDATE of the columns that were assigned a
\* new value; the session raises when the row is gone.
UpdateUserCommit(r) ==
    /\ inflight[r].pc = "commit"
    /\ inflight[r].op = "update_user"
    /\ LET call == inflight[r]
           dirty == call.role # Unset /\ call.role # call.loaded
       IN  IF dirty /\ call.user_id \notin DOMAIN users
           THEN /\ inflight' = [inflight EXCEPT ![r] = Answered(call, 500)]
                /\ UNCHANGED users
           ELSE /\ users' = IF dirty
                            THEN [users EXCEPT ![call.user_id].role = call.role]
                            ELSE users
                /\ inflight' = [inflight EXCEPT ![r] = Answered(call, OK)]
    /\ UNCHANGED users_rest

\* delete_user up to db.delete(user).
DeleteUserLoad(r) ==
    /\ inflight[r].pc = "load"
    /\ inflight[r].op = "delete_user"
    /\ LET call == inflight[r]
       IN  inflight' = [inflight EXCEPT ![r] =
             IF call.admin = call.user_id THEN Answered(call, 400)
             ELSE IF call.user_id \notin DOMAIN users THEN Answered(call, 404)
             ELSE [call EXCEPT !.pc = "commit"]]
    /\ UNCHANGED <<users, users_rest>>

\* db.commit() of delete_user: DELETE FROM users WHERE id = :id.
DeleteUserCommit(r) ==
    /\ inflight[r].pc = "commit"
    /\ inflight[r].op = "delete_user"
    /\ users' = Without(users, inflight[r].user_id)
    /\ inflight' = [inflight EXCEPT ![r] = Answered(@, OK)]
    /\ UNCHANGED users_rest

InitUsers ==
    /\ db = TwoTables /\ settings = SettingsExpected /\ driver = "legacy"
    /\ passed = "nothing"
    /\ inflight = [r \in ReqIds |-> IdleCall]
    /\ pre = <<>> /\ last = NoReply
    /\ submissions = <<>>
    /\ directions = {}
    /\ users = Accounts
    /\ reviewer_invites = <<>>
    /\ submission_awards = <<>>
    /\ reimbursements = <<>>
    /\ submission_vote_logs = <<>>

NextUsers ==
    \E r \in ReqIds :
        \/ Authenticate(r)
        \/ UpdateUserLoad(r)
        \/ UpdateUserCommit(r)
        \/ DeleteUserLoad(r)
        \/ DeleteUserCommit(r)

SpecUsers == InitUsers /\ [][NextUsers]_vars

\* A request of an administrator against their own account: delete_user, or
\* update_user with a role other than admin.
OnSelf(call) ==
    /\ call.pc = "done"
    /\ call.status \notin {401, 403}
    /\ call.user_id = call.admin
    /\ call.op = "delete_user" \/ call.role \notin {Unset, "admin"}

\* C23: through update_user and delete_user at least one administrator
\* always exists: an administrator's delete of their own account and change
\* of their own role away from admin are refused, and no sequence or
\* interleaving of these requests, each issued by a user who was
\* administrator when authenticated, leaves zero administrators.
C23_AdminRemains ==
    /\ \E u \in DOMAIN users : users[u].role = "admin"
    /\ \A r \in ReqIds : OnSelf(inflight[r]) => inflight[r].status # OK


\* -------------------------------------------------------- reimbursements
MaxReimbursements == 2

ReimbursementStatuses == {"pending", "approved", "rejected", "waiting_more"}
\* What the applicant's form holds (project_name, content, amount, ...).
Contents == {"a", "b"}
\* An administrator and two volunteers, none with assigned organizations.
Members == (1 :> User("admin")) @@ (2 :> User("volunteer")) @@ (3 :> User("volunteer"))

Result(status, table) == [status |-> status, table |-> table]

\* POST /api/reimbursements
create_reimbursement(table, caller, content) ==
    Result(OK, table @@ (NextId(table) :>
                [applicant_id |-> caller, status |-> "pending",
                 content |-> content]))

\* Mutant of update_reimbursement: the check of the status is left out.
update_reimbursement_unchecked(table, caller, reimbursement_id, content) ==
    IF ~(/\ reimbursement_id \in DOMAIN table
         /\ table[reimbursement_id].applicant_id = caller)
    THEN Result(404, table)
    ELSE Result(OK, [table EXCEPT ![reimbursement_id].content = content])

\* PUT /api/reimbursements/{reimbursement_id}
update_reimbursement(table, caller, reimbursement_id, content) ==
    IF ~(/\ reimbursement_id \in DOMAIN table
         /\ table[reimbursement_id].applicant_id = caller)
    THEN Result(404, table)
    ELSE IF table[reimbursement_id].status = "approved"
    THEN Result(400, table)
    ELSE Result(OK, [table EXCEPT ![reimbursement_id].content = content])

\* DELETE /api/reimbursements/{reimbursement_id}
delete_reimbursement(table, caller, reimbursement_id) ==
    IF ~(/\ reimbursement_id \in DOMAIN table
         /\ \/ users[caller].role = "admin"
            \/ table[reimbursement_id].applicant_id = caller)
    THEN Result(404, table)
    ELSE IF table[reimbursement_id].status = "approved"
    THEN Result(400, table)
    ELSE Result(OK, Without(table, reimbursement_id))

\* POST /api/reimbursements/{reimbursement_id}/review
review_reimbursement(table, caller, reimbursement_id, status) ==
    IF require_admin(users[caller].role) # OK
    THEN Result(require_admin(users[caller].role), table)
    ELSE IF reimbursement_id \notin DOMAIN table THEN Result(404, table)
    ELSE Result(OK, [table EXCEPT ![reimbursement_id].status = status])

\* The request is answered: the table is what the handler committed.
Served(op, caller, reimbursement_id, result) ==
    /\ reimbursements' = result.table
    /\ pre' = reimbursements
    /\ last' = Reply(op, result.status,
                     [caller |-> caller, id |-> reimbursement_id])
    /\ UNCHANGED <<console, submissions, directions, users, reviewer_invites,
                   submission_awards, submission_vote_logs>>

InitReimbursements ==
    /\ ConsoleAtRest
    /\ pre = <<>> /\ last = NoReply
    /\ submissions = <<>>
    /\ directions = {}
    /\ users = Members
    /\ reviewer_invites = <<>>
    /\ submission_awards = <<>>
    /\ reimbursements = <<>>
    /\ submission_vote_logs = <<>>

NextReimbursements ==
    \/ \E content \in Contents :
        /\ NextId(reimbursements) <= MaxReimbursements
        /\ Served("create_reimbursement", 2, NextId(reimbursements),
                  create_reimbursement(reimbursements, 2, content))
    \/ \E caller \in DOMAIN users, id \in 1..MaxReimbursements,
          content \in Contents :
        Served("update_reimbursement", caller, id,
               update_reimbursement(reimbursements, caller, id, content))
    \/ \E caller \in DOMAIN users, id \in 1..MaxReimbursements :
        Served("delete_reimbursement", caller, id,
               delete_reimbursement(reimbursements, caller, id))
    \/ \E caller \in DOMAIN users, id \in 1..MaxReimbursements,
          status \in ReimbursementStatuses :
        Served("review_reimbursement", caller, id,
               review_reimbursement(reimbursements, caller, id, status))

SpecReimbursements == InitReimbursements /\ [][NextReimbursements]_vars

\* The reimbursement the last request named, as it was before the request.
Target == pre[last.arg.id]
OnReimbursement(op) ==
    /\ last.op = op
    /\ last.arg.id \in DOMAIN pre
ByOwner == Target.applicant_id = last.arg.caller
ByAdmin == users[last.arg.caller].role = "admin"

\* C27: an approved reimbursement is never modified or removed by
\* update_reimbursement or delete_reimbursement: the applicant's update, and
\* the applicant's or an administrator's delete, are answered 400 and leave
\* it as it was; its content stays the same until review_reimbursement has
\* moved it out of approved.  A caller who is no administrator can update or
\* delete only their own reimbursements: the others answer 404.
C27_ApprovedIsFrozen ==
    /\ \A i \in DOMAIN pre :
        pre[i].status = "approved" =>
            /\ i \in DOMAIN reimbursements
            /\ reimbursements[i].content = pre[i].content
            /\ reimbursements[i] # pre[i] => last.op = "review_reimbursement"
    /\ (OnReimbursement("update_reimbursement") /\ ByOwner
            /\ Target.status = "approved") =>
           last.status = 400 /\ reimbursements = pre
    /\ (OnReimbursement("delete_reimbursement") /\ (ByOwner \/ ByAdmin)
            /\ Target.status = "approved") =>
           last.status = 400 /\ reimbursements = pre
    /\ ((OnReimbursement("update_reimbursement")
            \/ OnReimbursement("delete_reimbursement"))
            /\ ~ByOwner /\ ~ByAdmin) =>
           last.status = 404 /\ reimbursements = pre

\* An administrator's delete of an approved reimbursement of another user,
\* refused, after the applicant had changed its content while it was not
\* approved.
C27_Witness ==
    /\ OnReimbursement("delete_reimbursement")
    /\ ByAdmin /\ ~ByOwner
    /\ Target.status = "approved"
    /\ Target.content = "b"
    /\ last.status = 400
    /\ reimbursements = pre


\* ------------------------------------------------------------------ votes
MaxLogs == 2

\* allowed_fields of update_votes, in the order the handler walks them.
VoteFields == <<"vote_innovation", "vote_impact", "vote_feasibility">>
\* The payloads: each field a number or absent (null counts as absent).
VotePayloads == [Range(VoteFields) -> {Absent, 0, 1}]
Present(payload) == {f \in Range(VoteFields) : payload[f] # Absent}

\* Mutant of vote_log: the value after the request is logged as the old one.
vote_log_after(submission_id, user_id, field_name, old_value, new_value) ==
    [submission_id |-> submission_id, user_id |-> user_id,
     field_name |-> field_name, old_value |-> new_value,
     new_value |-> new_value]

\* The SubmissionVoteLog row update_votes adds for one field.
vote_log(submission_id, user_id, field_name, old_value, new_value) ==
    [submission_id |-> submission_id, user_id |-> user_id,
     field_name |-> field_name, old_value |-> old_value,
     new_value |-> new_value]

\* require_vote_editor: an administrator; the users modelled have no role
\* template.
require_vote_editor(user) == IF user.role = "admin" THEN OK ELSE 403

\* The loop of update_votes over allowed_fields, from the k-th field on.
RECURSIVE set_votes(_, _, _, _, _)
set_votes(state, editor, submission_id, payload, k) ==
    IF k > Len(VoteFields) THEN state
    ELSE LET field == VoteFields[k]
             old_value == state.submissions[submission_id][field]
             next ==
                 IF payload[field] = Absent THEN state
                 ELSE [submissions |->
                          [state.submissions EXCEPT
                              ![submission_id][field] = payload[field]],
                       logs |-> Append(state.logs,
                          vote_log(submission_id, editor, field, old_value,
                                   payload[field]))]
         IN  set_votes(next, editor, submission_id, payload, k + 1)

\* PATCH /api/submissions/{submission_id}/votes
update_votes ==
    \E editor \in DOMAIN users :
        IF require_vote_editor(users[editor]) # OK
        THEN /\ last' = Reply("update_votes", 403, None)
             /\ pre' = [submissions |-> submissions,
                        logs |-> submission_vote_logs]
             /\ UNCHANGED <<submissions, submission_vote_logs>>
        ELSE \E submission_id \in 1..MaxSubmissions + 1,
                payload \in VotePayloads :
            LET status == IF submission_id \notin DOMAIN submissions THEN 404
                          ELSE IF Present(payload) = {} THEN 400
                          ELSE OK
                before == [submissions |-> submissions,
                           logs |-> submission_vote_logs]
                after == IF status = OK
                         THEN set_votes(before, editor, submission_id, payload, 1)
                         ELSE before
            IN  /\ Len(after.logs) <= MaxLogs
                \* the payload of a request that names no submission is
                \* not looked at
                /\ status = 404 => Present(payload) = {}
                /\ submissions' = after.submissions
                /\ submission_vote_logs' = after.logs
                /\ pre' = before
                /\ last' = Reply("update_votes", status,
                                 [submission_id |-> submission_id,
                                  payload |-> payload])

InitVotes ==
    /\ ConsoleAtRest
    /\ last = NoReply
    /\ submissions = [i \in 1..MaxSubmissions |-> Submission(2, "poster", 1)]
    /\ submission_vote_logs = <<>>
    /\ pre = [submissions |-> submissions, logs |-> submission_vote_logs]
    /\ directions = {1}
    /\ users = Staff
    /\ reviewer_invites = <<>>
    /\ submission_awards = <<>>
    /\ reimbursements = <<>>

NextVotes ==
    /\ update_votes
    /\ UNCHANGED <<console, others>>

SpecVotes == InitVotes /\ [][NextVotes]_vars

\* The log entries of a vote field of a submission, oldest first.
LogsOf(logs, submission_id, field) ==
    LET Mine(log) == log.submission_id = submission_id /\ log.field_name = field
    IN  SelectSeq(logs, Mine)
Voted == last.op = "update_votes" /\ last.status = OK
Appended ==
    SubSeq(submission_vote_logs, Len(pre.logs) + 1, Len(submission_vote_logs))

\* C28: each successful update_votes appends one SubmissionVoteLog entry per
\* vote field the payload has, with old_value the value of the field before
\* the request and new_value its value after; so for every submission and
\* vote field with log entries the newest entry's new_value is the field's
\* current value and each entry's old_value is the new_value of the entry
\* before it.  A payload without a vote field is answered 400 and nothing
\* is logged.
C28_VoteAuditTrail ==
    /\ Voted =>
        /\ SubSeq(submission_vote_logs, 1, Len(pre.logs)) = pre.logs
        /\ Len(Appended) = Cardinality(Present(last.arg.payload))
        /\ \A f \in Present(last.arg.payload) :
            \E k \in 1..Len(Appended) :
                /\ Appended[k].submission_id = last.arg.submission_id
                /\ Appended[k].field_name = f
                /\ Appended[k].old_value =
                       pre.submissions[last.arg.submission_id][f]
                /\ Appended[k].new_value =
                       submissions[last.arg.submission_id][f]
    /\ \A i \in DOMAIN submissions, f \in Range(VoteFields) :
        LET trail == LogsOf(submission_vote_logs, i, f)
        IN  /\ trail # <<>> => trail[Len(trail)].new_value = submissions[i][f]
            /\ \A k \in 2..Len(trail) :
                   trail[k].old_value = trail[k - 1].new_value
    /\ (last.op = "update_votes" /\ last.status # 403
            /\ last.arg.submission_id \in DOMAIN submissions
            /\ Present(last.arg.payload) = {}) =>
           /\ last.status = 400
           /\ submission_vote_logs = pre.logs
           /\ submissions = pre.submissions

\* A second change of one field of a submission, logged after the first.
C28_Witness ==
    /\ Voted
    /\ Len(LogsOf(submission_vote_logs, last.arg.submission_id,
                  "vote_impact")) = 2
    /\ last.arg.payload["vote_impact"] = 0
    /\ pre.submissions[last.arg.submission_id]["vote_impact"] = 1


\* ------------------------------------------------------ reviewer invites
MaxInvites == 2

\* The codes an administrator or a reviewer types: A, a and B after a blank.
Codes == {<<"A">>, <<"a">>, <<" ", "B">>}
\* E-mail addresses as register_reviewer stores them, stripped and in lower case.
Emails == {"r1", "r2"}

\* str.upper(), on the letters of Codes.
upper(s) ==
    [i \in 1..Len(s) |->
        CASE s[i] = "a" -> "A" [] s[i] = "b" -> "B" [] OTHER -> s[i]]

\* _normalize_code of routers/admin.py and of routers/reviewers.py.
normalize_code_admin(code) == upper(strip(code))
normalize_code_reviewers(code) == strip(code)

\* The invites whose stored code is the one given.
WithCode(code) ==
    {i \in DOMAIN reviewer_invites : reviewer_invites[i].code = code}
\* History: the invites made from the code string an administrator passed.
MadeFrom(given) ==
    {i \in DOMAIN reviewer_invites : reviewer_invites[i].given = given}

\* A request outside the parallel ones is answered; no register_reviewer is
\* between its reads and its commit then.
Quiet == \A r \in ReqIds : inflight[r].pc \in {"idle", "done"}
Said(op, status, arg) ==
    /\ last' = Reply(op, status, arg)
    /\ pre' = pre

\* POST /api/admin/reviewer-invites, with a code in the payload.
create_reviewer_invite(codes, direction_ids) ==
    /\ Quiet
    /\ \E caller \in DOMAIN users :
        IF require_admin(users[caller].role) # OK
        THEN /\ Said("create_reviewer_invite", require_admin(users[caller].role), None)
             /\ UNCHANGED reviewer_invites
        ELSE \E code \in codes, preset_direction_id \in direction_ids :
            LET raw_code == strip(code)
                norm == normalize_code_admin(raw_code)
                status == IF WithCode(norm) # {} THEN 400
                          ELSE IF /\ preset_direction_id # Null
                                  /\ preset_direction_id \notin directions
                          THEN 404
                          ELSE OK
                id == NextId(reviewer_invites)
            IN  /\ status = OK => id <= MaxInvites
                /\ reviewer_invites' =
                     IF status = OK
                     THEN reviewer_invites @@
                          (id :> [code |-> norm, given |-> code,
                                  preset_direction_id |-> preset_direction_id,
                                  is_used |-> FALSE])
                     ELSE reviewer_invites
                /\ Said("create_reviewer_invite", status, code)

\* DELETE /api/admin/reviewer-invites/{invite_id}
delete_reviewer_invite ==
    /\ Quiet
    /\ \E caller \in DOMAIN users :
        IF require_admin(users[caller].role) # OK
        THEN /\ Said("delete_reviewer_invite", require_admin(users[caller].role), None)
             /\ UNCHANGED reviewer_invites
        ELSE \E invite_id \in 1..MaxInvites :
            LET status == IF invite_id \notin DOMAIN reviewer_invites THEN 404
                          ELSE IF reviewer_invites[invite_id].is_used THEN 400
                          ELSE OK
            IN  /\ reviewer_invites' = IF status = OK
                                       THEN Without(reviewer_invites, invite_id)
                                       ELSE reviewer_invites
                /\ Said("delete_reviewer_invite", status, invite_id)

\* GET /api/reviewers/invites/{code}
get_invite_detail(codes) ==
    /\ Quiet
    /\ \E code \in codes :
        LET found == WithCode(normalize_code_reviewers(code))
        IN  /\ Said("get_invite_detail",
                    IF found = {} THEN 404 ELSE OK,
                    [code |-> code, found |-> found])
            /\ UNCHANGED reviewer_invites

IdleRegistration ==
    [pc |-> "idle", invite_code |-> <<>>, email |-> None,
     direction_id |-> Null, invite_id |-> Null, status |-> 0,
     known |-> FALSE, late |-> FALSE]

\* register_reviewer up to db.add(user): the invite, the direction and the
\* email are read.  History: known, an invite made from this code string
\* exists; late, the invite found is used already.
RegisterRead(r, codes, direction_ids) ==
    /\ inflight[r].pc \in {"idle", "done"}
    /\ \E invite_code \in codes, payload_direction_id \in direction_ids,
          email \in Emails :
        LET found == WithCode(normalize_code_reviewers(invite_code))
            invite_id == CHOOSE i \in found : TRUE
            invite == reviewer_invites[invite_id]
            direction_id == IF invite.preset_direction_id # Null
                            THEN invite.preset_direction_id
                            ELSE payload_direction_id
            status == IF found = {} THEN 404
                      ELSE IF invite.is_used THEN 400
                      ELSE IF direction_id = Null THEN 400
                      ELSE IF direction_id \notin directions THEN 404
                      ELSE IF \E u \in DOMAIN users : users[u].email = email
                      THEN 400
                      ELSE OK
            call == [IdleRegistration EXCEPT
                        !.invite_code = invite_code,
                        !.known = MadeFrom(invite_code) # {},
                        !.late = found # {} /\ invite.is_used]
        IN  inflight' = [inflight EXCEPT ![r] =
                IF status # OK
                THEN [call EXCEPT !.pc = "done", !.status = status]
                ELSE [call EXCEPT !.pc = "write", !.email = email,
                                  !.direction_id = direction_id,
                                  !.invite_id = invite_id]]
    /\ UNCHANGED <<users, reviewer_invites>>

\* db.flush() to db.commit() of register_reviewer: the INSERT of the user
\* (users.email and users.reviewer_invite_id are unique), the UPDATE of the
\* invite, the commit.  The store lets one session write at a time.
RegisterWrite(r) ==
    /\ inflight[r].pc = "write"
    /\ LET call == inflight[r]
           unique == \A u \in DOMAIN users :
                        /\ users[u].email # call.email
                        /\ users[u].reviewer_invite_id # call.invite_id
           status == IF ~unique THEN 500
                     ELSE IF call.invite_id \notin DOMAIN reviewer_invites
                     THEN 500
                     ELSE OK
       IN  /\ users' =
                IF status = OK
                THEN users @@ (NextId(users) :>
                        [User("reviewer") EXCEPT
                            !.email = call.email,
                            !.reviewer_direction_id = call.direction_id,
                            !.reviewer_invite_id = call.invite_id])
                ELSE users
           /\ reviewer_invites' =
                IF status = OK
                THEN [reviewer_invites EXCEPT ![call.invite_id].is_used = TRUE]
                ELSE reviewer_invites
           /\ inflight' = [inflight EXCEPT ![r] =
                [IdleRegistration EXCEPT
                    !.pc = "done", !.status = status,
                    !.invite_code = call.invite_code,
                    !.known = call.known,
                    !.late = /\ call.invite_id \in DOMAIN reviewer_invites
                             /\ reviewer_invites[call.invite_id].is_used]]

invites_rest == <<db, settings, driver, passed, submissions, directions,
                  submission_awards, reimbursements, submission_vote_logs>>

InitInvites ==
    /\ db = TwoTables /\ settings = SettingsExpected /\ driver = "legacy"
    /\ passed = "nothing"
    /\ inflight = [r \in ReqIds |-> IdleRegistration]
    /\ pre = <<>> /\ last = NoReply
    /\ submissions = <<>>
    /\ directions = {1}
    /\ users = Staff
    /\ reviewer_invites = <<>>
    /\ submission_awards = <<>>
    /\ reimbursements = <<>>
    /\ submission_vote_logs = <<>>

NextInvites ==
    \/ /\ create_reviewer_invite(Codes, {Null})
       /\ UNCHANGED <<invites_rest, users, inflight>>
    \/ delete_reviewer_invite /\ UNCHANGED <<invites_rest, users, inflight>>
    \/ get_invite_detail(Codes) /\ UNCHANGED <<invites_rest, users, inflight>>
    \/ \E r \in ReqIds :
        /\ RegisterRead(r, Codes, {1})
        /\ UNCHANGED <<invites_rest, pre, last>>
    \/ \E r \in ReqIds :
        /\ RegisterWrite(r)
        /\ UNCHANGED <<invites_rest, pre, last>>

SpecInvites == InitInvites /\ [][NextInvites]_vars


\* The accounts linked to an invite.
LinkedTo(invite_id) ==
    {u \in DOMAIN users : users[u].reviewer_invite_id = invite_id}
OneAccountPerInvite ==
    \A i \in 1..MaxInvites : Cardinality(LinkedTo(i)) <= 1
\* The invite an account is linked to is there and used.
LinkedIsUsed ==
    \A i \in 1..MaxInvites :
        LinkedTo(i) # {} =>
            i \in DOMAIN reviewer_invites /\ reviewer_invites[i].is_used
\* A registration answered when its invite was used already got a 400.
LateIsRefused ==
    \A r \in ReqIds :
        (inflight[r].pc = "done" /\ inflight[r].late) => inflight[r].status = 400

\* C24: after any sequence or interleaving of register_reviewer requests at
\* most one account is linked to an invite; a used invite stays used; every
\* further registration with the code of a used invite is answered 400 and
\* creates no user.
C24_SingleUse ==
    /\ OneAccountPerInvite
    /\ LinkedIsUsed
    /\ LateIsRefused

\* C25: for every code string c an administrator passed to
\* create_reviewer_invite, get_invite_detail(c) and register_reviewer with
\* invite_code = c find the invite made from c.
C25_CodeRoundTrip ==
    /\ (last.op = "get_invite_detail" /\ MadeFrom(last.arg.code) # {}) =>
            /\ last.status = OK
            /\ MadeFrom(last.arg.code) \subseteq last.arg.found
    /\ \A r \in ReqIds :
        (inflight[r].pc = "done" /\ inflight[r].known) =>
            inflight[r].status # 404


\* ------------------------------------------------------------ directions
MaxDirections == 2

\* POST /api/admin/directions
create_direction ==
    /\ Quiet
    /\ \E caller \in DOMAIN users :
        LET status == require_admin(users[caller].role)
            id == MaxOf(directions) + 1
        IN  /\ status = OK => id <= MaxDirections
            /\ directions' = IF status = OK THEN directions \cup {id}
                             ELSE directions
            /\ Said("create_direction", status, None)

\* The rows with a foreign key to the direction, submissions apart.
RefersTo(direction_id) ==
    \/ \E u \in DOMAIN users : users[u].reviewer_direction_id = direction_id
    \/ \E i \in DOMAIN reviewer_invites :
            reviewer_invites[i].preset_direction_id = direction_id

\* DELETE /api/admin/directions/{direction_id}.  Whether the connection
\* enforces foreign keys is set where the engine is made, in database.py:
\* with foreign_keys the DELETE of a direction that is referred to fails.
delete_direction ==
    /\ Quiet
    /\ \E caller \in DOMAIN users :
        IF require_admin(users[caller].role) # OK
        THEN /\ Said("delete_direction", require_admin(users[caller].role), None)
             /\ UNCHANGED directions
        ELSE \E direction_id \in 1..MaxDirections, foreign_keys \in BOOLEAN :
            LET has_submissions ==
                    \E s \in DOMAIN submissions :
                        submissions[s].direction_id = direction_id
                status == IF direction_id \notin directions THEN 404
                          ELSE IF has_submissions THEN 400
                          ELSE IF foreign_keys /\ RefersTo(direction_id) THEN 500
                          ELSE OK
            IN  /\ directions' = IF status = OK
                                 THEN directions \ {direction_id}
                                 ELSE directions
                /\ Said("delete_direction", status, direction_id)

DirectionIds == {Null} \cup (1..MaxDirections)
directions_rest == <<db, settings, driver, passed, submission_awards,
                     reimbursements, submission_vote_logs>>

NextDirections ==
    \/ /\ create_direction
       /\ UNCHANGED <<directions_rest, submissions, users, reviewer_invites, inflight>>
    \/ /\ delete_direction
       /\ UNCHANGED <<directions_rest, submissions, users, reviewer_invites, inflight>>
    \/ /\ Quiet /\ create_submission({"poster"}, DirectionIds)
       /\ UNCHANGED <<console, others, submission_vote_logs>>
    \/ /\ Quiet /\ update_submission({"poster"}, DirectionIds)
       /\ UNCHANGED <<console, others, submission_vote_logs>>
    \/ /\ Quiet
       /\ admin_update_submission(DirectionIds \cup {Absent}, {Unset}, {Unset})
       /\ UNCHANGED <<console, others, submission_vote_logs>>
    \/ /\ create_reviewer_invite({<<"A">>}, DirectionIds)
       /\ UNCHANGED <<directions_rest, submissions, directions, users, inflight>>
    \/ /\ RegisterRead(1, {<<"A">>}, DirectionIds)
       /\ UNCHANGED <<directions_rest, submissions, directions, pre, last>>
    \/ /\ RegisterWrite(1)
       /\ UNCHANGED <<directions_rest, submissions, directions, pre, last>>

SpecDirections == InitInvites /\ [][NextDirections]_vars

SubmissionsNamed ==
    \A s \in DOMAIN submissions :
        submissions[s].direction_id # Null =>
            submissions[s].direction_id \in directions
ReviewersNamed ==
    \A u \in DOMAIN users :
        users[u].reviewer_direction_id # Null =>
            users[u].reviewer_direction_id \in directions

\* C26: after any sequence of create_direction, delete_direction, author
\* create_submission and update_submission, admin_update_submission,
\* create_reviewer_invite and register_reviewer requests, every non-null
\* direction_id of a submission and every non-null reviewer_direction_id of
\* a user is the id of a direction that exists.
C26_NoDanglingDirection ==
    /\ SubmissionsNamed
    /\ ReviewersNamed

====
